---- MODULE Spec2Model ----
(***************************************************************************)
(* A model of excalipur: the change-tracking model instance (src/model.js), *)
(* the DAO's streaming query, DAO.inTransaction, and the DAO's save,        *)
(* update, destroy and get against a connection (src/dao.js).               *)
(*                                                                          *)
(* JavaScript values are modelled as strings: Null, Undefined, the string   *)
(* values "a", "b", the identifiers "1", "2", ...  All are primitives, so   *)
(* JavaScript's === is TLA+ equality on them.                               *)
(***************************************************************************)
EXTENDS Integers, Sequences, FiniteSets, TLC

VARIABLES
    \* ---- the schema (Model, src/model.js) ----
    idColumn,     \* attrs[id].column: the identity attribute's column
    idAttr,       \* self.id: the attribute flagged id: true, null when none
    descrAttr,    \* attrs.description: its column, default and defaultOfType
    validations,  \* self.validations: <<attribute, validators>>, in key order
    \* ---- a constructor call and a validate() call (src/model.js) ----
    given,        \* attrs, the raw map the constructor is called with
    validated,    \* the outcome of validate(): not called, returned, threw
    \* ---- the model instance (ModelInstance, src/model.js) ----
    current,      \* self.values.current: own keys -> value
    original,     \* self.values.original: own keys -> value
    emitted,      \* the events emitted by the last proxy set, in order
    baseline,     \* history: each attribute's value at the last checkpoint
    hist,         \* history: the last two operations invoked on the instance
    \* ---- one call of DAO.prototype.query (src/dao.js) ----
    q,            \* the call's closure: uniqueResult, collectResults, res,
                  \* the deferred's promise, the progress notifications
    qIn,          \* the rows the connection has still to emit
    qSeen,        \* history: the rows emitted so far
    qTerminal,    \* the terminal event received: "none", "end", "error"
    qAsked,       \* history: the selectors called before the terminal event
    qRejectedAt,  \* history: the number of the row whose handler rejected
    qLast,        \* history: the selector called last before the terminal event
    qFirstAt,     \* history: per selector, the rows emitted before its first
                  \* call (-1 when it was not called)
    \* ---- the connection and its database session ----
    db,           \* the table, the open transaction and its snapshot
    sent,         \* the statements sent on the connection since the caller's
                  \* call, in order
    answers,      \* the connection's answers to them, in order
    \* ---- one call of DAO.inTransaction(conn, fn, opts) (src/dao.js) ----
    txPc,         \* where the coroutine is: idle, begin, work, end, catch, done
    txOpts,       \* opts
    txRes,        \* const res, the unit of work's result
    txEx,         \* ex, the exception caught
    txResult,     \* the promise inTransaction returned
    \* ---- the unit of work fn: dao.save(conn, obj), or a throw ----
    fnKind,       \* which unit of work the caller passed
    fnResult,     \* the promise fn() returned
    savePc,       \* where save is: idle, insert (awaiting the INSERT), done
    fnCalledAfter,\* history: the number of statements sent when fn() was called
    tableAtCall,  \* history: the table when inTransaction was called
    \* ---- the caller's DAO operations on the instance, one at a time ----
    daoOp,        \* the operation called last: kind, argument
    daoPc,        \* "idle", or "await" while its statement is unanswered
    daoResult,    \* the promise the operation returned
    steps,        \* history: the steps the operation has performed, in order
    daoAt,        \* history: the instance and the table when it was called
    prev,         \* history: the operation the caller performed before
    scen,         \* history: the caller's progress in save, write, update, get
    nOps,         \* the number of operations the caller has performed
    \* ---- a caller paging through dao.list ----
    paging,       \* opts of the first call and of the running one, rows so far
    \* ---- two DAO.inTransaction scopes on one connection ----
    scope         \* for each scope: where its coroutine is, opts, its promise

instVars == <<current, original, emitted, baseline, hist>>
qVars == <<q, qIn, qSeen, qTerminal, qAsked, qRejectedAt, qLast, qFirstAt>>
connVars == <<db, sent, answers>>
txVars == <<txPc, txOpts, txRes, txEx, txResult, fnKind, fnResult, savePc,
            fnCalledAfter, tableAtCall>>
daoVars == <<daoOp, daoPc, daoResult, steps, daoAt, prev, scen, nOps>>
schemaVars == <<idColumn, idAttr, descrAttr, validations>>
modelVars == <<schemaVars, given, validated>>
callerVars == <<paging, scope>>

vars == <<idColumn, idAttr, descrAttr, validations, given, validated,
          current, original, emitted, baseline, hist,
          q, qIn, qSeen, qTerminal, qAsked, qRejectedAt, qLast, qFirstAt,
          db, sent, answers,
          txPc, txOpts, txRes, txEx, txResult, fnKind, fnResult, savePc,
          fnCalledAfter, tableAtCall,
          daoOp, daoPc, daoResult, steps, daoAt, prev, scen, nOps,
          paging, scope>>

\* What an operation on the instance, and what a query event, leaves alone.
nonInstVars == <<modelVars, callerVars, qVars, connVars, txVars, daoVars>>
nonQueryVars == <<modelVars, callerVars, instVars, connVars, txVars, daoVars>>

-----------------------------------------------------------------------------
(* Values *)

Null == "null"
Undefined == "undefined"
\* The function value an object inherits from Object.prototype (toString).
ProtoFn == "function"

\* The values written to attributes.
Vals == {Null, "a", "b"}

EmptyMap == [k \in {} |-> Undefined]

\* obj with key k set to v (added when absent).
Put(obj, k, v) == [x \in (DOMAIN obj) \cup {k} |-> IF x = k THEN v ELSE obj[x]]

\* delete obj[k]
Delete(obj, k) == [x \in (DOMAIN obj) \ {k} |-> obj[x]]

-----------------------------------------------------------------------------
(* The schema: Model.define(attrs, opts) *)

\* The declared attributes.
Attrs == {"key", "name", "description"}

\* The attribute the schema flags id: true, and self.id.
KeyAttr == "key"
ModelId == idAttr

\* The columns the identity attribute is declared with: its own name (the
\* default), or an alias.
IdColumns == {"key", "key_col"}

\* The declaration of description: a column alias and a static default.
BaseDescr == [column |-> "descr", default |-> "static", defaultOfType |-> FALSE]

\* No constructor call and no validate() call is followed.
NotCalled == [state |-> "none", err |-> "-"]

\* attr.column, defaulted to the attribute name by Model().
Column(a) ==
    IF a = "description" THEN descrAttr.column
    ELSE IF a = ModelId THEN idColumn
    ELSE a

\* typeof attr.default === "function", attr.defaultOfType,
\* attr.hasOwnProperty("default") and the values they give.
HasFactory(a) == a = "description" /\ descrAttr.default = "factory"
DefaultOfType(a) == a = "description" /\ descrAttr.defaultOfType
HasDefault(a) == a = "description" /\ descrAttr.default # "none"
FactoryValue == "made"
TypeValue == "new"
Default(a) == IF a = "description" THEN "a" ELSE Undefined

\* Names every plain object inherits (Object.prototype), seen by `in`.
ProtoNames == {"toString"}

\* name in obj
In(obj, name) == name \in DOMAIN obj \/ name \in ProtoNames

\* obj.hasOwnProperty(name)
HasOwn(obj, name) == name \in DOMAIN obj

\* obj[name]
Get(obj, name) ==
    IF name \in DOMAIN obj THEN obj[name]
    ELSE IF name \in ProtoNames THEN ProtoFn
    ELSE Undefined

-----------------------------------------------------------------------------
(* Construction: ModelInstance(attrs, argv) *)

\* The raw attribute maps given to the constructor: attribute names and
\* column names, each absent or holding a value.
RawKeys == Attrs \cup {Column(a) : a \in Attrs}
RawVals == {"a", "b"}
RawInputs ==
    {r \in UNION {[D -> RawVals] : D \in SUBSET RawKeys} : TRUE}

\* A constructor that prefers the static default to a value of the type.
InitialValue_StaticFirst(raw, a) ==
    IF HasOwn(raw, a) THEN raw[a]
    ELSE IF HasOwn(raw, Column(a)) THEN raw[Column(a)]
    ELSE IF HasFactory(a) THEN FactoryValue
    ELSE IF HasDefault(a) THEN Default(a)
    ELSE IF DefaultOfType(a) THEN TypeValue
    ELSE Null

\* The value the constructor gives attribute a.
InitialValue(raw, a) ==
    IF HasOwn(raw, a) THEN raw[a]
    ELSE IF HasOwn(raw, Column(a)) THEN raw[Column(a)]
    ELSE IF HasFactory(a) THEN FactoryValue
    ELSE IF DefaultOfType(a) THEN TypeValue
    ELSE IF HasDefault(a) THEN Default(a)
    ELSE Null

Construct(raw) == [a \in Attrs |-> InitialValue(raw, a)]

-----------------------------------------------------------------------------
(* baseMethods *)

\* A checkpoint that leaves the baseline map as it is.
CheckpointOriginal_Keep(orig) == orig

\* checkpoint(): self.values.original = {}
CheckpointOriginal(orig) == EmptyMap

\* hasChanged(name)
hasChanged(name) == HasOwn(original, name)

\* attr() with no argument
attrAll == current

\* changed() with no argument
changedAll == [k \in DOMAIN original |-> Get(current, k)]

\* original(name) with a string, and with no argument
originalOf(name) == Get(original, name)
originalAll == original

-----------------------------------------------------------------------------
(* The proxy's set trap *)

\* A proxy that knows no id alias.
Resolve_NoAlias(name) == name

\* The name after the id alias is resolved.
Resolve(name) == IF name = "id" /\ ModelId # Null THEN ModelId ELSE name

\* A set that compares the new value with the current value, not with the
\* baseline.
SetOriginal_CompareCurrent(cur, orig, name, val) ==
    IF ~HasOwn(orig, name) THEN Put(orig, name, Get(cur, name))
    ELSE IF val = Get(cur, name) THEN Delete(orig, name)
    ELSE orig

\* A set that keeps the value before the last write as the baseline.
SetOriginal_LastValue(cur, orig, name, val) == Put(orig, name, Get(cur, name))

\* values.original after set(name, val), name already resolved.
SetOriginal(cur, orig, name, val) ==
    IF ~HasOwn(orig, name) THEN Put(orig, name, Get(cur, name))
    ELSE IF val = orig[name] THEN Delete(orig, name)
    ELSE orig

\* values.current after set(name, val).
SetCurrent(cur, name, val) == Put(cur, name, val)

\* The two emit calls of set, in order.
SetEvents(orig2, name, val) ==
    << <<"change:all", name, Get(orig2, name), val>>,
       <<"change:" \o name, Get(orig2, name), val>> >>

\* The whole set trap: the new <<current, original, events>>.
ProxySet(cur, orig, rawName, val) ==
    LET name == Resolve(rawName) IN
    IF In(cur, name)
    THEN LET orig2 == SetOriginal(cur, orig, name, val) IN
         <<SetCurrent(cur, name, val), orig2, SetEvents(orig2, name, val)>>
    ELSE <<cur, orig, <<>> >>

-----------------------------------------------------------------------------
(* The proxy's get trap *)

\* Some of the names of self.methods: baseMethods and EventEmitter's.
MethodNames == {"checkpoint", "hasChanged", "attr", "changed", "original",
                "validate", "emit", "on"}

\* obj[rawName]: the attribute's value, else the method, else undefined.
ProxyGet(cur, rawName) ==
    LET name == Resolve(rawName) IN
    IF In(cur, name) THEN Get(cur, name)
    ELSE IF name \in MethodNames THEN ProtoFn
    ELSE Undefined

-----------------------------------------------------------------------------
(* Operations on the instance *)

\* The property names written: an attribute, the id alias (the identity
\* attribute), an undeclared name and an inherited name.
WriteNames == {"name", "id", "foo", "toString"}

NoOp == [op |-> "none", name |-> "-", val |-> "-"]

Record(h, o) == <<h[2], o>>

InitInstance ==
    /\ \E raw \in RawInputs : current = Construct(raw)
    /\ original = EmptyMap
    /\ emitted = <<>>
    /\ baseline = current
    /\ hist = <<NoOp, NoOp>>

\* obj[name] = val
Write(name, val) ==
    LET r == ProxySet(current, original, name, val) IN
    /\ current' = r[1]
    /\ original' = r[2]
    /\ emitted' = r[3]
    /\ hist' = Record(hist, [op |-> "set", name |-> name, val |-> val])
    /\ UNCHANGED <<baseline, nonInstVars>>

\* obj.checkpoint()
Checkpoint ==
    /\ original' = CheckpointOriginal(original)
    /\ baseline' = current
    /\ emitted' = <<>>
    /\ hist' = Record(hist, [op |-> "checkpoint", name |-> "-", val |-> "-"])
    /\ UNCHANGED <<current, nonInstVars>>

NextInstance ==
    \/ \E name \in WriteNames, val \in Vals : Write(name, val)
    \/ Checkpoint

\* An instance no operation is applied to.
IdleInstance ==
    /\ current = Construct(EmptyMap)
    /\ original = EmptyMap
    /\ emitted = <<>>
    /\ baseline = current
    /\ hist = <<NoOp, NoOp>>

-----------------------------------------------------------------------------
(* DAO.prototype.query: the deferred, the handlers, the selectors *)

\* The longest stream of rows.
MaxRows == 3

\* The rows a connection emits: column name -> value.
RowOf(k) == [c \in {Column(a) : a \in Attrs} |->
                IF c = Column(ModelId) THEN k
                ELSE IF c = "name" THEN "a" ELSE "b"]
Rows == {RowOf(k) : k \in {"1", "2", "3"}}

Streams == UNION {[1..n -> Rows] : n \in 0..MaxRows}

\* new self.model.modelConstructor(row)
Instance(row) == Construct(row)
Instances(rows) == [i \in 1..Len(rows) |-> Instance(rows[i])]

\* The values of the closure variable res: null, one instance, an array.
ResNull == [kind |-> "null", val |-> <<>>]
ResOne(m) == [kind |-> "one", val |-> <<m>>]
ResList(ms) == [kind |-> "list", val |-> ms]
NoValue == [kind |-> "undefined", val |-> <<>>]

Pending == [state |-> "pending", val |-> NoValue, err |-> "-"]
Resolved(v) == [state |-> "resolved", val |-> v, err |-> "-"]
Rejected(e) == [state |-> "rejected", val |-> NoValue, err |-> e]

MultipleResults == "multiple results"
StreamErrors == {"E"}

\* d.resolve / d.reject: a deferred settles once, later calls do nothing.
Settle(promise, outcome) ==
    IF promise.state = "pending" THEN outcome ELSE promise

\* d.progress(m): notifies while the promise is pending.
Progress(c, m) ==
    IF c.promise.state = "pending"
    THEN [c EXCEPT !.progress = Append(@, m)]
    ELSE c

\* A row handler that resolves as soon as the unique result is found.
RowHandler_EagerResolve(c, row) ==
    LET m == Instance(row) IN
    IF c.uniqueResult
    THEN IF c.res = ResNull
         THEN Progress([c EXCEPT !.res = ResOne(m),
                                 !.promise = Settle(@, Resolved(ResOne(m)))], m)
         ELSE [c EXCEPT !.promise = Settle(@, Rejected(MultipleResults))]
    ELSE IF c.collectResults
         THEN Progress([c EXCEPT !.res = ResList(Append(c.res.val, m))], m)
         ELSE Progress(c, m)

\* A row handler that does not notify the rows it collects.
RowHandler_SilentCollect(c, row) ==
    LET m == Instance(row) IN
    IF c.uniqueResult
    THEN IF c.res = ResNull
         THEN Progress([c EXCEPT !.res = ResOne(m)], m)
         ELSE [c EXCEPT !.promise = Settle(@, Rejected(MultipleResults))]
    ELSE IF c.collectResults
         THEN [c EXCEPT !.res = ResList(Append(c.res.val, m))]
         ELSE Progress(c, m)

\* query.on("row", ...).  In the collectResults branch res is an array:
\* collectResults() made it one, and only the uniqueResult branch, which
\* shadows this one for good, assigns res afterwards.
RowHandler(c, row) ==
    LET m == Instance(row) IN
    IF c.uniqueResult
    THEN IF c.res = ResNull
         THEN Progress([c EXCEPT !.res = ResOne(m)], m)
         ELSE [c EXCEPT !.promise = Settle(@, Rejected(MultipleResults))]
    ELSE IF c.collectResults
         THEN Progress([c EXCEPT !.res = ResList(Append(c.res.val, m))], m)
         ELSE Progress(c, m)

\* An end handler that settles only when a selector was called.
EndHandler_SelectorOnly(c) ==
    IF c.uniqueResult \/ c.collectResults
    THEN [c EXCEPT !.promise = Settle(@, Resolved(c.res))]
    ELSE c

\* query.on("end", ...)
EndHandler(c) ==
    IF c.uniqueResult \/ c.collectResults
    THEN [c EXCEPT !.promise = Settle(@, Resolved(c.res))]
    ELSE [c EXCEPT !.promise = Settle(@, Resolved(NoValue))]

\* query.on("error", ...)
ErrorHandler(c, err) == [c EXCEPT !.promise = Settle(@, Rejected(err))]

\* d.promise.uniqueResult()
UniqueResultCall(c) == [c EXCEPT !.uniqueResult = TRUE]

\* d.promise.collectResults()
CollectResultsCall(c) == [c EXCEPT !.collectResults = TRUE, !.res = ResList(<<>>)]

\* No selector has been called.
NeverCalled == [unique |-> -1, collect |-> -1]

\* The history of a selector call made before the terminal event.
NoteCall(sel) ==
    IF qTerminal = "none"
    THEN /\ qLast' = sel
         /\ qFirstAt' = IF qFirstAt[sel] = -1
                        THEN [qFirstAt EXCEPT ![sel] = Len(qSeen)] ELSE qFirstAt
    ELSE UNCHANGED <<qLast, qFirstAt>>

\* The state query() returns in: nothing emitted yet.
NewQuery ==
    [uniqueResult |-> FALSE, collectResults |-> FALSE, res |-> ResNull,
     promise |-> Pending, progress |-> <<>>]

InitQuery ==
    /\ q = NewQuery
    /\ qIn \in Streams
    /\ qSeen = <<>>
    /\ qTerminal = "none"
    /\ qAsked = {}
    /\ qRejectedAt = 0
    /\ qLast = "none"
    /\ qFirstAt = NeverCalled

\* No query is running.
IdleQuery ==
    /\ q = NewQuery
    /\ qIn = <<>>
    /\ qSeen = <<>>
    /\ qTerminal = "none"
    /\ qAsked = {}
    /\ qRejectedAt = 0
    /\ qLast = "none"
    /\ qFirstAt = NeverCalled

\* The connection emits the next row.
QRow ==
    /\ qTerminal = "none"
    /\ qIn # <<>>
    /\ q' = RowHandler(q, Head(qIn))
    /\ qIn' = Tail(qIn)
    /\ qSeen' = Append(qSeen, Head(qIn))
    /\ qRejectedAt' = IF q.promise.state = "pending" /\ q'.promise.state = "rejected"
                      THEN Len(qSeen) + 1 ELSE qRejectedAt
    /\ UNCHANGED <<qTerminal, qAsked, qLast, qFirstAt, nonQueryVars>>

\* The connection emits end, after its last row.
QEnd ==
    /\ qTerminal = "none"
    /\ qIn = <<>>
    /\ q' = EndHandler(q)
    /\ qTerminal' = "end"
    /\ UNCHANGED <<qIn, qSeen, qAsked, qRejectedAt, qLast, qFirstAt, nonQueryVars>>

\* The connection emits error; no row follows it.
QError ==
    /\ qTerminal = "none"
    /\ \E err \in StreamErrors : q' = ErrorHandler(q, err)
    /\ qTerminal' = "error"
    /\ UNCHANGED <<qIn, qSeen, qAsked, qRejectedAt, qLast, qFirstAt, nonQueryVars>>

\* The caller calls uniqueResult() on the handle, at any time.
CallUniqueResult ==
    /\ q' = UniqueResultCall(q)
    /\ qAsked' = IF qTerminal = "none" THEN qAsked \cup {"unique"} ELSE qAsked
    /\ NoteCall("unique")
    /\ UNCHANGED <<qIn, qSeen, qTerminal, qRejectedAt, nonQueryVars>>

\* The caller calls collectResults() on the handle, at any time.
CallCollectResults ==
    /\ q' = CollectResultsCall(q)
    /\ qAsked' = IF qTerminal = "none" THEN qAsked \cup {"collect"} ELSE qAsked
    /\ NoteCall("collect")
    /\ UNCHANGED <<qIn, qSeen, qTerminal, qRejectedAt, nonQueryVars>>

NextQuery ==
    \/ QRow
    \/ QEnd
    \/ QError
    \/ CallUniqueResult
    \/ CallCollectResults

-----------------------------------------------------------------------------
(* validations.js and baseMethods.validate *)

\* isNotNull(value): [pass, message]
isNotNull(value) ==
    IF value = Null THEN <<FALSE, "expected not null">> ELSE <<TRUE, "">>

\* typeof value: a number, null and a constructed object are no strings.
Numbers == {"55"}
TypeOf(value) ==
    IF value \in {Null, TypeValue} THEN "object"
    ELSE IF value = Undefined THEN "undefined"
    ELSE IF value = ProtoFn THEN "function"
    ELSE IF value \in Numbers THEN "number"
    ELSE "string"

\* isString(value): [pass, message]
isString(value) ==
    IF TypeOf(value) # "string" THEN <<FALSE, "expected string">> ELSE <<TRUE, "">>

\* The validations of the schema the DAO is used with, in key order:
\* <<attribute, validators>>.
Validations == << <<"name", <<"isNotNull">> >> >>

\* The schema the instance, the query, the transaction scope and the DAO
\* are followed on; the identity attribute's column is its own name.
BaseSchema ==
    /\ idAttr = KeyAttr
    /\ descrAttr = BaseDescr
    /\ validations = Validations
    /\ given = EmptyMap
    /\ validated = NotCalled
PlainSchema == idColumn = "key" /\ BaseSchema

\* fn.apply(self, args)
ApplyValidator(fn, value) ==
    IF fn = "isString" THEN isString(value) ELSE isNotNull(value)

\* The entries validate() pushes on `failed` for one attribute.
FailedOf(prop, fns, value) ==
    LET res == [i \in 1..Len(fns) |-> <<prop, ApplyValidator(fns[i], value)>>]
        Fails(r) == ~r[2][1]
        bad == SelectSeq(res, Fails)
    IN [i \in 1..Len(bad) |-> <<bad[i][1], bad[i][2][2]>>]

\* The list validate() has collected when it decides whether to throw.
RECURSIVE FailedFrom(_, _)
FailedFrom(cur, i) ==
    IF i > Len(validations) THEN <<>>
    ELSE FailedOf(validations[i][1], validations[i][2], Get(cur, validations[i][1]))
            \o FailedFrom(cur, i + 1)

\* A validate() that finds nothing wrong.
Failed_Never(cur) == <<>>

Failed(cur) == FailedFrom(cur, 1)

\* Errors: a ValidationError carries the failed list.
ValidationError(failed) == [kind |-> "ValidationError", msg |-> "", failed |-> failed]
Error(msg) == [kind |-> "Error", msg |-> msg, failed |-> <<>>]
NoError == Error("")

-----------------------------------------------------------------------------
(* The connection's database session (PostgreSQL) *)

\* Object.keys order of the attributes, and of a returned row's columns.
AttrOrder == <<"key", "name", "description">>
ColumnOrder == [i \in 1..Len(AttrOrder) |-> Column(AttrOrder[i])]

Statement(stmt, by) ==
    [stmt |-> stmt, sets |-> <<>>, where |-> <<>>, params |-> <<>>, by |-> by]

\* The generated identifiers of the serial column.
Serial == <<"1", "2", "3", "4", "5", "6", "7", "8", "9">>

\* The value of column c in an INSERT's set clauses, Undefined when not set.
SetValue(st, c) ==
    LET hit == {i \in 1..Len(st.sets) : st.sets[i][1] = c}
    IN IF hit = {} THEN Undefined ELSE st.params[st.sets[CHOOSE i \in hit : TRUE][2]]

\* The row an INSERT stores: the serial column is generated when not set,
\* every other column not set is null.
InsertedRow(d, st) ==
    [c \in {ColumnOrder[i] : i \in 1..Len(ColumnOrder)} |->
        IF SetValue(st, c) # Undefined THEN SetValue(st, c)
        ELSE IF c = Column(ModelId) THEN Serial[d.serial]
        ELSE Null]

\* The stored rows a WHERE column = $n clause selects.
Matching(d, st) ==
    {r \in d.table : r[st.where[1]] = st.params[st.where[2]]}

\* A row after an UPDATE's set clauses.
UpdatedRow(r, st) ==
    [c \in DOMAIN r |-> IF SetValue(st, c) # Undefined THEN SetValue(st, c) ELSE r[c]]

\* The session after a statement it executed.
Exec(d, st) ==
    CASE st.stmt = "BEGIN" ->
            IF d.inTx THEN d ELSE [d EXCEPT !.inTx = TRUE, !.snapshot = d.table]
      [] st.stmt = "COMMIT" ->
            [d EXCEPT !.inTx = FALSE, !.snapshot = {}]
      [] st.stmt = "ROLLBACK" ->
            IF d.inTx
            THEN [d EXCEPT !.table = d.snapshot, !.inTx = FALSE, !.snapshot = {}]
            ELSE d
      [] st.stmt = "INSERT" ->
            [d EXCEPT !.table = @ \cup {InsertedRow(d, st)},
                      !.serial = IF SetValue(st, Column(ModelId)) = Undefined
                                 THEN @ + 1 ELSE @]
      [] st.stmt = "UPDATE" ->
            [d EXCEPT !.table = (@ \ Matching(d, st))
                                   \cup {UpdatedRow(r, st) : r \in Matching(d, st)}]
      [] st.stmt = "DELETE" ->
            [d EXCEPT !.table = @ \ Matching(d, st)]
      [] st.stmt = "SELECT" -> d

\* The session after a statement that failed.  A failed BEGIN or INSERT
\* stores nothing; a COMMIT that fails rolls the transaction back, and a
\* ROLLBACK fails only with the session, whose transaction the server aborts.
Fail(d, st) ==
    IF st.stmt \in {"COMMIT", "ROLLBACK"} /\ d.inTx
    THEN [d EXCEPT !.table = d.snapshot, !.inTx = FALSE, !.snapshot = {}]
    ELSE d

\* res.rows of a statement that succeeded.
ReturnedRows(d, st) ==
    IF st.stmt = "INSERT" THEN <<InsertedRow(d, st)>> ELSE <<>>

\* Whether the session can execute the statement: under a primary key an
\* INSERT needs a fresh key, and a WHERE clause needs a column of the table.
Executable(d, st) ==
    /\ (st.stmt = "INSERT" /\ d.pk) =>
          \A r \in d.table : r[Column(ModelId)] # InsertedRow(d, st)[Column(ModelId)]
    /\ st.where # <<>> => st.where[1] \in {ColumnOrder[i] : i \in 1..Len(ColumnOrder)}

\* The sequences that enumerate a set of rows: rows come in no promised order.
Orderings(S) ==
    {o \in [1..Cardinality(S) -> S] : \A i, j \in 1..Cardinality(S) : i # j => o[i] # o[j]}

\* The res.rows the session may answer a statement with.
Answers(d, st) ==
    CASE st.stmt = "INSERT" -> {ReturnedRows(d, st)}
      [] st.stmt = "UPDATE" -> Orderings({UpdatedRow(r, st) : r \in Matching(d, st)})
      [] st.stmt = "SELECT" -> Orderings(Matching(d, st))
      [] OTHER -> {<<>>}

\* The statement awaiting its answer.
InFlight == Len(answers) < Len(sent)
Flying == sent[Len(sent)]

-----------------------------------------------------------------------------
(* DAO.prototype.save *)

\* A save that leaves out every identity that is not truthy.
Kept_Truthy(cur) ==
    LET Keep(a) == ~(a = ModelId /\ Get(cur, a) \in {Undefined, Null, ""})
    IN SelectSeq(AttrOrder, Keep)

\* The attributes save puts in the INSERT: all but a null or undefined
\* identity.
Kept(cur) ==
    LET Keep(a) == ~(a = ModelId /\ (Get(cur, a) = Undefined \/ Get(cur, a) = Null))
    IN SelectSeq(AttrOrder, Keep)

\* An INSERT whose placeholders are numbered by the attribute's place among
\* all attributes, the skipped identity's number left unused.
InsertStatement_CountSkipped(cur) ==
    LET kept == Kept(cur)
        skipped == Len(AttrOrder) - Len(kept)
    IN [stmt |-> "INSERT",
        sets |-> [i \in 1..Len(kept) |-> <<Column(kept[i]), i + skipped>>],
        where |-> <<>>,
        params |-> [i \in 1..Len(kept) |-> Get(cur, kept[i])],
        by |-> "save"]

\* The INSERT save builds: q.set(columnName, "$" + (++p)), attrValues.
InsertStatement(cur) ==
    LET kept == Kept(cur) IN
    [stmt |-> "INSERT",
     sets |-> [i \in 1..Len(kept) |-> <<Column(kept[i]), i>>],
     where |-> <<>>,
     params |-> [i \in 1..Len(kept) |-> Get(cur, kept[i])],
     by |-> "save"]

\* obj[attrName] = res.rows[0][attrName] for the row's keys from the i-th on:
\* <<current, original, events of the last set>>.
RECURSIVE MergeFrom(_, _, _)
MergeFrom(state, row, i) ==
    IF i > Len(ColumnOrder) THEN state
    ELSE MergeFrom(ProxySet(state[1], state[2], ColumnOrder[i], row[ColumnOrder[i]]),
                   row, i + 1)

MergeRow(cur, orig, ev, rows) ==
    IF rows # <<>> THEN MergeFrom(<<cur, orig, ev>>, rows[1], 1) ELSE <<cur, orig, ev>>

-----------------------------------------------------------------------------
(* DAO.inTransaction *)

NoOpts == [given |-> FALSE, readOnly |-> FALSE]
OptsInputs == {NoOpts, [given |-> TRUE, readOnly |-> FALSE],
               [given |-> TRUE, readOnly |-> TRUE]}

\* opts && opts.readOnly
ReadOnly(opts) == opts.given /\ opts.readOnly

\* A scope that commits whatever opts says.
TerminalStmt_AlwaysCommit(opts) == "COMMIT"

\* The statement that ends a scope whose unit of work succeeded.
TerminalStmt(opts) == IF ReadOnly(opts) THEN "ROLLBACK" ELSE "COMMIT"

\* A scope that does not hand the unit of work's result on.
TxReturn_Nothing(res) == NoValue

\* return res
TxReturn(res) == res

\* The units of work: dao.save(conn, obj) as a coroutine, or a function that
\* throws before it returns.
FnKinds == {"save", "throw"}
FnError == Error("thrown by fn")

\* The raw maps the saved instance is constructed from.
TxRaws == {r \in RawInputs : DOMAIN r \subseteq {"key", "name"}
                             /\ ("key" \in DOMAIN r => r["key"] = "b")}

\* The stored rows before the call.
TxTables == {{}, {RowOf("1")}}

NewSession(t) ==
    [table |-> t, inTx |-> FALSE, snapshot |-> {}, serial |-> 2, pk |-> TRUE]

IdleTx ==
    /\ db = NewSession({})
    /\ sent = <<>>
    /\ answers = <<>>
    /\ txPc = "idle"
    /\ txOpts = NoOpts
    /\ txRes = NoValue
    /\ txEx = NoError
    /\ txResult = Pending
    /\ fnKind = "save"
    /\ fnResult = Pending
    /\ savePc = "idle"
    /\ fnCalledAfter = -1
    /\ tableAtCall = {}

InitTx ==
    /\ \E raw \in TxRaws : current = Construct(raw)
    /\ original = EmptyMap
    /\ emitted = <<>>
    /\ baseline = current
    /\ hist = <<NoOp, NoOp>>
    /\ \E t \in TxTables : db = NewSession(t)
    /\ sent = <<>>
    /\ answers = <<>>
    /\ txPc = "idle"
    /\ txOpts = NoOpts
    /\ txRes = NoValue
    /\ txEx = NoError
    /\ txResult = Pending
    /\ fnKind = "save"
    /\ fnResult = Pending
    /\ savePc = "idle"
    /\ fnCalledAfter = -1
    /\ tableAtCall = {}

\* The catch block is entered with ex: it sends ROLLBACK.
EnterCatch(ex, log) ==
    /\ txEx' = ex
    /\ sent' = Append(log, Statement("ROLLBACK", "catch"))
    /\ txPc' = "catch"

\* DAO.inTransaction(conn, fn, opts) is called: it sends BEGIN.
TxCall ==
    /\ txPc = "idle"
    /\ \E opts \in OptsInputs : txOpts' = opts
    /\ \E kind \in FnKinds : fnKind' = kind
    /\ sent' = Append(sent, Statement("BEGIN", "begin"))
    /\ txPc' = "begin"
    /\ tableAtCall' = db.table
    /\ UNCHANGED <<db, answers, txRes, txEx, txResult, fnResult, savePc,
                   fnCalledAfter, instVars, qVars, modelVars, callerVars, daoVars>>

\* BEGIN succeeds and fn() is called.  A throwing fn is caught at once; save
\* runs to its first yield: the hooks (the schema has none), validate(), the
\* INSERT sent.
AnswerBeginOk ==
    /\ txPc = "begin" /\ InFlight
    /\ db' = Exec(db, Flying)
    /\ answers' = Append(answers, "ok")
    /\ fnCalledAfter' = Len(sent)
    /\ IF fnKind = "throw"
       THEN /\ EnterCatch(FnError, sent)
            /\ UNCHANGED <<fnResult, savePc>>
       ELSE /\ txPc' = "work"
            /\ UNCHANGED txEx
            /\ IF Failed(current) # <<>>
               THEN /\ fnResult' = Rejected(ValidationError(Failed(current)))
                    /\ savePc' = "done"
                    /\ UNCHANGED sent
               ELSE /\ sent' = Append(sent, InsertStatement(attrAll))
                    /\ savePc' = "insert"
                    /\ UNCHANGED fnResult
    /\ UNCHANGED <<txOpts, txRes, txResult, fnKind, tableAtCall, instVars, qVars, modelVars, callerVars, daoVars>>

\* BEGIN fails: fn is not called.
AnswerBeginError ==
    /\ txPc = "begin" /\ InFlight
    /\ db' = Fail(db, Flying)
    /\ answers' = Append(answers, "error")
    /\ EnterCatch(Error("BEGIN failed"), sent)
    /\ UNCHANGED <<txOpts, txRes, txResult, fnKind, fnResult, savePc,
                   fnCalledAfter, tableAtCall, instVars, qVars, modelVars, callerVars, daoVars>>

\* The INSERT succeeds: save merges the returned row, checkpoints, runs the
\* postCreate hooks (none) and returns obj.
AnswerInsertOk ==
    /\ savePc = "insert" /\ InFlight
    /\ Executable(db, Flying)
    /\ db' = Exec(db, Flying)
    /\ answers' = Append(answers, "ok")
    /\ LET merged == MergeRow(current, original, emitted, ReturnedRows(db, Flying)) IN
       /\ current' = merged[1]
       /\ original' = CheckpointOriginal(merged[2])
       /\ emitted' = merged[3]
       /\ baseline' = merged[1]
       /\ fnResult' = Resolved(merged[1])
    /\ savePc' = "done"
    /\ UNCHANGED <<hist, sent, txPc, txOpts, txRes, txEx, txResult, fnKind,
                   fnCalledAfter, tableAtCall, qVars, modelVars, callerVars, daoVars>>

\* The INSERT fails: save rejects with the connection's error.
AnswerInsertError ==
    /\ savePc = "insert" /\ InFlight
    /\ db' = Fail(db, Flying)
    /\ answers' = Append(answers, "error")
    /\ fnResult' = Rejected(Error("INSERT failed"))
    /\ savePc' = "done"
    /\ UNCHANGED <<sent, txPc, txOpts, txRes, txEx, txResult, fnKind,
                   fnCalledAfter, tableAtCall, instVars, qVars, modelVars, callerVars, daoVars>>

\* yield fn() returns or throws: the scope sends its terminating statement,
\* or enters the catch block.
TxResumeWork ==
    /\ txPc = "work" /\ fnResult.state # "pending"
    /\ IF fnResult.state = "resolved"
       THEN /\ txRes' = fnResult.val
            /\ sent' = Append(sent, Statement(TerminalStmt(txOpts), "end"))
            /\ txPc' = "end"
            /\ UNCHANGED txEx
       ELSE /\ EnterCatch(fnResult.err, sent)
            /\ UNCHANGED txRes
    /\ UNCHANGED <<db, answers, txOpts, txResult, fnKind, fnResult, savePc,
                   fnCalledAfter, tableAtCall, instVars, qVars, modelVars, callerVars, daoVars>>

\* The terminating statement succeeds: return res.
AnswerEndOk ==
    /\ txPc = "end" /\ InFlight
    /\ db' = Exec(db, Flying)
    /\ answers' = Append(answers, "ok")
    /\ txResult' = Resolved(TxReturn(txRes))
    /\ txPc' = "done"
    /\ UNCHANGED <<sent, txOpts, txRes, txEx, fnKind, fnResult, savePc,
                   fnCalledAfter, tableAtCall, instVars, qVars, modelVars, callerVars, daoVars>>

\* The terminating statement fails, inside the try block.
AnswerEndError ==
    /\ txPc = "end" /\ InFlight
    /\ db' = Fail(db, Flying)
    /\ answers' = Append(answers, "error")
    /\ EnterCatch(Error(Flying.stmt \o " failed"), sent)
    /\ UNCHANGED <<txOpts, txRes, txResult, fnKind, fnResult, savePc,
                   fnCalledAfter, tableAtCall, instVars, qVars, modelVars, callerVars, daoVars>>

\* The catch block's ROLLBACK succeeds: throw ex.
AnswerCatchOk ==
    /\ txPc = "catch" /\ InFlight
    /\ db' = Exec(db, Flying)
    /\ answers' = Append(answers, "ok")
    /\ txResult' = Rejected(txEx)
    /\ txPc' = "done"
    /\ UNCHANGED <<sent, txOpts, txRes, txEx, fnKind, fnResult, savePc,
                   fnCalledAfter, tableAtCall, instVars, qVars, modelVars, callerVars, daoVars>>

\* The catch block's ROLLBACK fails: its error leaves the catch block, and
\* throw ex is not reached.
AnswerCatchError ==
    /\ txPc = "catch" /\ InFlight
    /\ db' = Fail(db, Flying)
    /\ answers' = Append(answers, "error")
    /\ txResult' = Rejected(Error("ROLLBACK failed"))
    /\ txPc' = "done"
    /\ UNCHANGED <<sent, txOpts, txRes, txEx, fnKind, fnResult, savePc,
                   fnCalledAfter, tableAtCall, instVars, qVars, modelVars, callerVars, daoVars>>

NextTx ==
    \/ TxCall
    \/ AnswerBeginOk
    \/ AnswerBeginError
    \/ AnswerInsertOk
    \/ AnswerInsertError
    \/ TxResumeWork
    \/ AnswerEndOk
    \/ AnswerEndError
    \/ AnswerCatchOk
    \/ AnswerCatchError
-----------------------------------------------------------------------------
(* DAO.prototype.save, update, destroy and get, called one after another *)

\* The most operations the caller performs: DAO calls and attribute writes.
MaxOps == 5

\* model.hooks: lifecycle name -> callables, in declared order.
Hooks ==
    [preCreate |-> <<"preCreate1", "preCreate2">>,
     postCreate |-> <<"postCreate1", "postCreate2">>,
     preUpdate |-> <<"preUpdate1">>,
     postUpdate |-> <<"postUpdate1">>,
     preDestroy |-> <<"preDestroy1">>,
     postDestroy |-> <<"postDestroy1">>]

\* The hooks of a phase in reverse order.
Ran_Reversed(phase, k) ==
    LET hs == Hooks[phase] IN [i \in 1..Len(hs) |-> hs[Len(hs) + 1 - i]]

\* Hooks that all run although one of them throws.
Ran_All(phase, k) == Hooks[phase]

\* for (i = 0; i < hooks.length; i++) hooks[i].call(obj.__self__): the hooks
\* called when the k-th one throws, all of them when none does (k = 0).
Ran(phase, k) ==
    IF k = 0 THEN Hooks[phase] ELSE SubSeq(Hooks[phase], 1, k)

\* The choices of the hook that throws.
Throws(phase) == 0..Len(Hooks[phase])
HookError(phase, k) == Error("thrown by " \o Hooks[phase][k])

\* The value save and update return: obj, the instance they were given.
TheObj == [kind |-> "obj", val |-> <<>>]

\* The attributes the caller writes between DAO calls, and the ids it asks
\* for: those of the stored rows, and the instance's own.
DaoWriteNames == {"name", "description"}
DaoWriteVals == {Null, "b"}
DaoIds == {r[Column(ModelId)] : r \in db.table}
OwnId == {current[ModelId]} \ {Null, Undefined}

\* Two stored rows under one id, in a table without a primary key.
Twin == [RowOf("3") EXCEPT !["name"] = "b"]
LooseSession(t) == [NewSession(t) EXCEPT !.pk = FALSE]

\* The raw maps the instance is constructed from: a name or none, no
\* identity or the empty string for one.
DaoRaws ==
    {[k \in {} |-> ""], [name |-> "a"], [key |-> ""], [key |-> "", name |-> "a"]}

NoDaoOp == [kind |-> "none", id |-> "-", name |-> "-", val |-> "-", byObj |-> FALSE]
DaoOp(kind, id, byObj) == [NoDaoOp EXCEPT !.kind = kind, !.id = id, !.byObj = byObj]

\* The instance and the table as an operation finds them.
AtCall == [current |-> current, original |-> original, table |-> db.table]

\* The operation before the one called now: what it was, whether it
\* resolved, whether a row with its id was stored when it was called.
NoPrev == [kind |-> "none", id |-> "-", ok |-> FALSE, hit |-> FALSE]
Prev ==
    [kind |-> daoOp.kind, id |-> daoOp.id,
     ok |-> daoOp.kind \in {"set", "adopt"} \/ daoResult.state = "resolved",
     hit |-> \E r \in daoAt.table : r[Column(ModelId)] = daoOp.id]

\* How far the caller is in the scenario save, one write, update, get by the
\* saved id: 1 after the save (a get by the saved id and going on with its
\* instance stay there), 2 after the write, 3 after the update, 4 after the
\* get.  Anything else starts over.
NoScen == [stage |-> 0, saved |-> EmptyMap, name |-> "-", val |-> "-"]
Saved(cur) == [NoScen EXCEPT !.stage = 1, !.saved = cur]
SavedId == Get(scen.saved, ModelId)

IdleDao ==
    /\ daoOp = NoDaoOp
    /\ daoPc = "idle"
    /\ daoResult = Pending
    /\ steps = <<>>
    /\ daoAt = [current |-> EmptyMap, original |-> EmptyMap, table |-> {}]
    /\ prev = NoPrev
    /\ scen = NoScen
    /\ nOps = 0

\* No DAO.inTransaction call is running.
NoTx ==
    /\ txPc = "idle"
    /\ txOpts = NoOpts
    /\ txRes = NoValue
    /\ txEx = NoError
    /\ txResult = Pending
    /\ fnKind = "save"
    /\ fnResult = Pending
    /\ savePc = "idle"
    /\ fnCalledAfter = -1
    /\ tableAtCall = {}

InitDao ==
    /\ idColumn \in IdColumns
    /\ BaseSchema
    /\ \E raw \in DaoRaws : current = Construct(raw)
    /\ original = EmptyMap
    /\ emitted = <<>>
    /\ baseline = current
    /\ hist = <<NoOp, NoOp>>
    /\ db \in {NewSession({}), NewSession({RowOf("1")}), LooseSession({RowOf("3"), Twin})}
    /\ sent = <<>>
    /\ answers = <<>>
    /\ NoTx
    /\ IdleDao

\* A destroy that runs the hooks whatever it is given.
RanFor_Always(byObj, phase, k) == Ran(phase, k)

\* if (_.isObject(obj) && _.isArray(hooks)): destroy calls the hooks of a
\* phase only when it is given an instance.
RanFor(byObj, phase, k) == IF byObj THEN Ran(phase, k) ELSE <<>>

\* const id = _.isObject(objOrId) ? objOrId.id : objOrId
DestroyId(byObj, id, cur) == IF byObj THEN Get(cur, ModelId) ELSE id

\* An UPDATE that sets nothing.
UpdateStatement_NoSets(cur, orig) ==
    [stmt |-> "UPDATE", sets |-> <<>>, where |-> <<ModelId, 1>>,
     params |-> <<Get(cur, ModelId)>>, by |-> "update"]

\* An UPDATE that sets every attribute, changed or not.
UpdateStatement_AllAttrs(cur, orig) ==
    [stmt |-> "UPDATE",
     sets |-> [i \in 1..Len(AttrOrder) |-> <<Column(AttrOrder[i]), i + 1>>],
     where |-> <<ModelId, 1>>,
     params |-> <<Get(cur, ModelId)>> \o [i \in 1..Len(AttrOrder) |-> Get(cur, AttrOrder[i])],
     by |-> "update"]

\* The UPDATE update builds: where(model.id + " = $1"), values = [obj.id],
\* then q.set(columnName, "$" + (++p)) for each key of changed().
UpdateStatement(cur, orig) ==
    LET Dirty(a) == HasOwn(orig, a)
        names == SelectSeq(AttrOrder, Dirty)
    IN [stmt |-> "UPDATE",
        sets |-> [i \in 1..Len(names) |-> <<Column(names[i]), i + 1>>],
        where |-> <<ModelId, 1>>,
        params |-> <<Get(cur, ModelId)>> \o [i \in 1..Len(names) |-> Get(cur, names[i])],
        by |-> "update"]

\* An update that sends its statement whatever has changed.
NeedsStatement_Always(attrs) == TRUE

\* attrNames.length > 0, for the keys of changed()
NeedsStatement(attrs) == DOMAIN attrs # {}

\* A DELETE that is given no id.
DeleteStatement_NoId(id) ==
    [stmt |-> "DELETE", sets |-> <<>>, where |-> <<ModelId, 1>>, params |-> <<Null>>,
     by |-> "destroy"]

\* The DELETE destroy builds and the SELECT get builds, with [id].
DeleteStatement(id) ==
    [stmt |-> "DELETE", sets |-> <<>>, where |-> <<ModelId, 1>>, params |-> <<id>>,
     by |-> "destroy"]
SelectStatement(id) ==
    [stmt |-> "SELECT", sets |-> <<>>, where |-> <<ModelId, 1>>, params |-> <<id>>,
     by |-> "get"]

\* A get that answers with the first row of any number.
GetResult_FirstRow(rows) ==
    IF Len(rows) >= 1 THEN ResOne(Construct(rows[1])) ELSE ResNull

\* get's return value for res.rows.
GetResult(rows) ==
    IF Len(rows) = 1 THEN ResOne(Construct(rows[1])) ELSE ResNull

\* The caller makes a call: the connection's log starts again.
DaoCalled(op) ==
    /\ daoPc = "idle" /\ nOps < MaxOps
    /\ nOps' = nOps + 1
    /\ daoOp' = op
    /\ daoAt' = AtCall
    /\ prev' = Prev
    /\ answers' = <<>>
    /\ UNCHANGED <<db, qVars, modelVars, callerVars, txVars>>

\* An operation that calls checkpoint() before it rejects.
DaoReject_Checkpointed(err, log) ==
    /\ daoResult' = Rejected(err)
    /\ steps' = Append(log, "checkpoint")
    /\ daoPc' = "idle"
    /\ scen' = NoScen
    /\ sent' = <<>>

\* The operation ends before it has sent a statement: it rejects with err.
DaoReject(err, log) ==
    /\ daoResult' = Rejected(err)
    /\ steps' = log
    /\ daoPc' = "idle"
    /\ scen' = NoScen
    /\ sent' = <<>>

\* The operation sends a statement and waits for its answer; the caller's
\* scenario goes on as sc.
DaoSendThen(st, log, sc) ==
    /\ sent' = <<st>>
    /\ daoResult' = Pending
    /\ steps' = Append(log, st.stmt)
    /\ daoPc' = "await"
    /\ scen' = sc

DaoSend(st, log) == DaoSendThen(st, log, scen)

\* obj.checkpoint(), the post hooks, return obj: the end of save and update.
DaoFinish(cur, orig, ev, log, phase, k) ==
    /\ current' = cur
    /\ original' = CheckpointOriginal(orig)
    /\ emitted' = ev
    /\ baseline' = cur
    /\ steps' = log \o <<"checkpoint">> \o Ran(phase, k)
    /\ daoResult' = IF k = 0 THEN Resolved(TheObj) ELSE Rejected(HookError(phase, k))
    /\ daoPc' = "idle"
    /\ scen' = IF k # 0 THEN NoScen
               ELSE IF phase = "postCreate" THEN Saved(cur)
               ELSE IF scen.stage = 2 THEN [scen EXCEPT !.stage = 3]
               ELSE NoScen

\* obj[name] = val, between two DAO calls.
DaoWrite ==
    /\ \E name \in DaoWriteNames, val \in DaoWriteVals :
         LET r == ProxySet(current, original, name, val) IN
         /\ DaoCalled([NoDaoOp EXCEPT !.kind = "set", !.name = name, !.val = val])
         /\ current' = r[1]
         /\ original' = r[2]
         /\ emitted' = r[3]
         /\ hist' = Record(hist, [op |-> "set", name |-> name, val |-> val])
         /\ scen' = IF scen.stage = 1
                    THEN [scen EXCEPT !.stage = 2, !.name = name, !.val = val]
                    ELSE NoScen
    /\ sent' = <<>>
    /\ UNCHANGED <<baseline, daoPc, daoResult, steps>>

\* dao.save(conn, obj) up to its yield: the preCreate hooks, validate(), the
\* INSERT sent.
DaoSave ==
    /\ DaoCalled(DaoOp("save", "-", TRUE))
    /\ \E k \in Throws("preCreate") :
         IF k > 0
         THEN DaoReject(HookError("preCreate", k), Ran("preCreate", k))
         ELSE IF Failed(current) # <<>>
         THEN DaoReject(ValidationError(Failed(current)),
                        Append(Ran("preCreate", 0), "validate"))
         ELSE DaoSend(InsertStatement(attrAll), Append(Ran("preCreate", 0), "validate"))
    /\ UNCHANGED instVars

\* dao.update(conn, obj) up to its yield, or to its end when changed() is
\* empty: the preUpdate hooks, validate(), then the UPDATE sent, or
\* checkpoint() and the postUpdate hooks at once.
DaoUpdate ==
    /\ DaoCalled(DaoOp("update", "-", TRUE))
    /\ LET log == Append(Ran("preUpdate", 0), "validate") IN
       \E k \in Throws("preUpdate") :
         IF k > 0
         THEN /\ DaoReject(HookError("preUpdate", k), Ran("preUpdate", k))
              /\ UNCHANGED instVars
         ELSE IF Failed(current) # <<>>
         THEN /\ DaoReject(ValidationError(Failed(current)), log)
              /\ UNCHANGED instVars
         ELSE IF NeedsStatement(changedAll)
         THEN /\ DaoSend(UpdateStatement(current, original), log)
              /\ UNCHANGED instVars
         ELSE /\ \E k2 \in Throws("postUpdate") :
                   DaoFinish(current, original, <<>>, log, "postUpdate", k2)
              /\ sent' = <<>>
              /\ UNCHANGED hist

\* dao.destroy(conn, objOrId) up to its yield: the preDestroy hooks when an
\* instance is given, the DELETE sent.
DaoDestroy ==
    /\ \E byObj \in BOOLEAN :
       \E id \in (IF byObj THEN {Get(current, ModelId)} ELSE DaoIds \cup OwnId) :
         /\ DaoCalled(DaoOp("destroy", id, byObj))
         /\ \E k \in (IF byObj THEN Throws("preDestroy") ELSE {0}) :
              IF k > 0
              THEN DaoReject(HookError("preDestroy", k), Ran("preDestroy", k))
              ELSE DaoSendThen(DeleteStatement(DestroyId(byObj, id, current)),
                               RanFor(byObj, "preDestroy", 0), NoScen)
    /\ UNCHANGED instVars

\* dao.get(conn, id) up to its yield: the SELECT sent.
DaoGet ==
    /\ \E id \in DaoIds \cup OwnId :
         /\ DaoCalled(DaoOp("get", id, FALSE))
         /\ DaoSend(SelectStatement(id), <<>>)
    /\ UNCHANGED instVars

\* The statement of the running operation succeeds.
DaoAnswered(kind) ==
    /\ daoPc = "await" /\ daoOp.kind = kind /\ InFlight
    /\ Executable(db, Flying)
    /\ db' = Exec(db, Flying)
    /\ answers' = Append(answers, "ok")
    /\ UNCHANGED <<sent, daoOp, daoAt, prev, nOps, qVars, modelVars, callerVars, txVars>>

\* save after its yield: the returned row merged, checkpoint(), the
\* postCreate hooks, return obj.
AnswerSaveOk ==
    /\ DaoAnswered("save")
    /\ \E rows \in Answers(db, Flying), k \in Throws("postCreate") :
         LET m == MergeRow(current, original, emitted, rows) IN
         DaoFinish(m[1], m[2], m[3],
                   IF rows # <<>> THEN Append(steps, "merge") ELSE steps,
                   "postCreate", k)
    /\ UNCHANGED hist

\* update after its yield: the same with the postUpdate hooks.
AnswerUpdateOk ==
    /\ DaoAnswered("update")
    /\ \E rows \in Answers(db, Flying), k \in Throws("postUpdate") :
         LET m == MergeRow(current, original, emitted, rows) IN
         DaoFinish(m[1], m[2], m[3],
                   IF rows # <<>> THEN Append(steps, "merge") ELSE steps,
                   "postUpdate", k)
    /\ UNCHANGED hist

\* destroy after its yield: the postDestroy hooks when an instance was given;
\* it returns nothing.
AnswerDestroyOk ==
    /\ DaoAnswered("destroy")
    /\ \E k \in (IF daoOp.byObj THEN Throws("postDestroy") ELSE {0}) :
         /\ steps' = steps \o RanFor(daoOp.byObj, "postDestroy", k)
         /\ daoResult' = IF k = 0 THEN Resolved(NoValue)
                         ELSE Rejected(HookError("postDestroy", k))
    /\ daoPc' = "idle"
    /\ UNCHANGED <<instVars, scen>>

\* get after its yield.
AnswerGetOk ==
    /\ DaoAnswered("get")
    /\ \E rows \in Answers(db, Flying) : daoResult' = Resolved(GetResult(rows))
    /\ daoPc' = "idle"
    /\ scen' = IF scen.stage \in {1, 3} /\ daoOp.id = SavedId
               THEN [scen EXCEPT !.stage = IF @ = 3 THEN 4 ELSE 1]
               ELSE NoScen
    /\ UNCHANGED <<instVars, steps>>

\* The statement of the running operation fails: the operation rejects with
\* the connection's error.
AnswerDaoError ==
    /\ daoPc = "await" /\ InFlight
    /\ db' = Fail(db, Flying)
    /\ answers' = Append(answers, "error")
    /\ daoResult' = Rejected(Error(Flying.stmt \o " failed"))
    /\ daoPc' = "idle"
    /\ scen' = NoScen
    /\ UNCHANGED <<sent, daoOp, daoAt, prev, nOps, steps, instVars, qVars, modelVars, callerVars, txVars>>

\* The caller goes on with the instance get resolved with.
DaoAdopt ==
    /\ daoOp.kind = "get" /\ daoResult.state = "resolved" /\ daoResult.val.kind = "one"
    /\ daoPc = "idle"
    /\ daoOp' = [NoDaoOp EXCEPT !.kind = "adopt"]
    /\ daoAt' = AtCall
    /\ prev' = Prev
    /\ answers' = <<>>
    /\ current' = daoResult.val.val[1]
    /\ original' = EmptyMap
    /\ emitted' = <<>>
    /\ baseline' = current'
    /\ hist' = <<NoOp, NoOp>>
    /\ scen' = IF scen.stage = 1 THEN scen ELSE NoScen
    /\ sent' = <<>>
    /\ UNCHANGED <<daoPc, daoResult, steps, nOps, db, qVars, modelVars, callerVars, txVars>>

NextDao ==
    \/ DaoWrite
    \/ DaoSave
    \/ DaoUpdate
    \/ DaoDestroy
    \/ DaoGet
    \/ AnswerSaveOk
    \/ AnswerUpdateOk
    \/ AnswerDestroyOk
    \/ AnswerGetOk
    \/ AnswerDaoError
    \/ DaoAdopt

-----------------------------------------------------------------------------
(* DAO.prototype.list, called page after page *)

\* An option that is not supplied (opts.limit === undefined).
Absent == -1

\* opts: none, or limit and offset, each absent or a number.
NoListOpts == [given |-> FALSE, limit |-> Absent, offset |-> Absent]
ListOpts ==
    {NoListOpts} \cup [given : {TRUE}, limit : {Absent, 0, 1, 2}, offset : {Absent, 0, 1}]

\* if (opts.limit) q.limit(opts.limit): a number is applied when it is truthy.
Applied(n) == IF n # Absent /\ n # 0 THEN n ELSE Absent

\* The SELECT list builds: order(model.id), limit and offset.
ListStatement(opts) ==
    [stmt |-> "SELECT", sets |-> <<>>, where |-> <<>>, params |-> <<>>, by |-> "list",
     order |-> ModelId,
     limit |-> IF opts.given THEN Applied(opts.limit) ELSE Absent,
     offset |-> IF opts.given THEN Applied(opts.offset) ELSE Absent]

\* The session's answer to ORDER BY column LIMIT n OFFSET m: the stored rows
\* in ascending order of the column, rows with equal values in any order,
\* from the row after the offset on, the limit at most.
IdRank(k) == CHOOSE i \in 1..Len(Serial) : Serial[i] = k
SortedBy(c, S) ==
    {o \in Orderings(S) :
        \A i, j \in 1..Cardinality(S) : i < j => IdRank(o[i][c]) <= IdRank(o[j][c])}
Slice(o, offset, limit) ==
    LET from == (IF offset = Absent THEN 0 ELSE offset) + 1
        to == IF limit = Absent \/ from - 1 + limit > Len(o) THEN Len(o)
              ELSE from - 1 + limit
    IN SubSeq(o, from, to)
ListAnswers(d, st) ==
    {Slice(o, st.offset, st.limit) : o \in SortedBy(Column(st.order), d.table)}

NoPaging == [pc |-> "idle", first |-> NoListOpts, opts |-> NoListOpts, got |-> <<>>]

\* No transaction scope is started.
NoScopes == <<>>

IdleCallers == paging = NoPaging /\ scope = NoScopes

InitList ==
    /\ \E t \in SUBSET Rows : db = NewSession(t)
    /\ sent = <<>>
    /\ answers = <<>>
    /\ NoTx
    /\ paging = NoPaging

\* list(conn, opts): the statement built, self.query(conn, q) called; the
\* connection will emit the rows of its answer.
ListSend(opts) ==
    /\ sent' = <<ListStatement(opts)>>
    /\ answers' = <<>>
    /\ q' = NewQuery
    /\ qIn' \in ListAnswers(db, ListStatement(opts))
    /\ qSeen' = <<>>
    /\ qTerminal' = "none"
    /\ qAsked' = {}
    /\ qRejectedAt' = 0
    /\ qLast' = "none"
    /\ qFirstAt' = NeverCalled
    /\ UNCHANGED <<db, instVars, modelVars, txVars, daoVars, scope>>

\* The caller's first call.
ListCall ==
    /\ paging.pc = "idle"
    /\ \E opts \in ListOpts :
         /\ ListSend(opts)
         /\ paging' = [pc |-> "streaming", first |-> opts, opts |-> opts, got |-> <<>>]

\* The page has ended: a caller paging with a positive limit that received
\* rows calls list again with the offset advanced by their number.
ListNext ==
    /\ paging.pc = "streaming" /\ qTerminal = "end"
    /\ LET n == Len(q.progress)
           got == paging.got \o q.progress
           from == IF paging.opts.offset = Absent THEN 0 ELSE paging.opts.offset
           opts == [paging.opts EXCEPT !.offset = from + n]
       IN IF paging.opts.given /\ paging.opts.limit > 0 /\ n > 0
          THEN /\ ListSend(opts)
               /\ paging' = [paging EXCEPT !.opts = opts, !.got = got]
          ELSE /\ paging' = [paging EXCEPT !.pc = "done", !.got = got]
               /\ UNCHANGED <<connVars, qVars, instVars, modelVars, txVars, daoVars, scope>>

NextList ==
    \/ ListCall
    \/ ListNext
    \/ QRow
    \/ QEnd

-----------------------------------------------------------------------------
(* DAO.inTransaction, called twice on one connection *)

\* The two scopes a caller starts without awaiting the first.
Scopes == {1, 2}

\* A scope before its call: where its coroutine is, its opts, the value of
\* yield fn(), the exception caught, and the promise inTransaction returned.
IdleScope ==
    [pc |-> "idle", opts |-> NoOpts, res |-> NoValue, ex |-> NoError, result |-> Pending]

\* A statement as the connection queues it: who issued it, and at which step.
ScopeStatement(i, stmt, by) ==
    [stmt |-> stmt, sets |-> <<>>, where |-> <<>>, params |-> <<>>, by |-> by,
     scope |-> i]

\* The unit of work of scope i: fn issues one INSERT on the connection and
\* returns its promise.
WorkNames == <<"a", "b">>
WorkStatement(i) ==
    [stmt |-> "INSERT", sets |-> <<<<Column("name"), 1>>>>, where |-> <<>>,
     params |-> <<WorkNames[i]>>, by |-> "work", scope |-> i]

\* An inTransaction that waits while another scope runs on the connection.
Locked_WhileOther(i) == \E j \in Scopes \ {i} : scope[j].pc \notin {"idle", "done"}

\* Whether the call has to wait for the connection: inTransaction tests
\* nothing before it sends BEGIN.
Locked(i) == FALSE

\* The connection answers its statements in the order they were issued.
Oldest == sent[Len(answers) + 1]

InitTwo ==
    /\ db = NewSession({})
    /\ sent = <<>>
    /\ answers = <<>>
    /\ NoTx
    /\ scope = [i \in Scopes |-> IdleScope]

\* DAO.inTransaction(conn, fn, opts) is called for scope i: the coroutine
\* runs to its first yield, BEGIN sent.
TwoCall(i) ==
    /\ scope[i].pc = "idle"
    /\ ~Locked(i)
    /\ \E opts \in OptsInputs :
         scope' = [scope EXCEPT ![i].pc = "begin", ![i].opts = opts]
    /\ sent' = Append(sent, ScopeStatement(i, "BEGIN", "begin"))
    /\ UNCHANGED <<db, answers, instVars, qVars, modelVars, txVars, daoVars, paging>>

\* The scope after the statement it awaits succeeded with rows, and the
\* statements it has issued then: fn() called, the terminating statement
\* sent, or the promise settled.
ResumedOk(i, sc, rows) ==
    CASE sc.pc = "begin" -> <<[sc EXCEPT !.pc = "work"], <<WorkStatement(i)>>>>
      [] sc.pc = "work" ->
            <<[sc EXCEPT !.pc = "end", !.res = rows],
              <<ScopeStatement(i, TerminalStmt(sc.opts), "end")>>>>
      [] sc.pc = "end" ->
            <<[sc EXCEPT !.pc = "done", !.result = Resolved(TxReturn(sc.res))], <<>>>>
      [] sc.pc = "catch" ->
            <<[sc EXCEPT !.pc = "done", !.result = Rejected(sc.ex)], <<>>>>

\* The scope after the statement it awaits failed: the catch block sends
\* ROLLBACK, and a ROLLBACK that fails there rejects with its own error.
ResumedError(i, sc, stmt) ==
    IF sc.pc = "catch"
    THEN <<[sc EXCEPT !.pc = "done", !.result = Rejected(Error("ROLLBACK failed"))], <<>>>>
    ELSE <<[sc EXCEPT !.pc = "catch", !.ex = Error(stmt \o " failed")],
           <<ScopeStatement(i, "ROLLBACK", "catch")>>>>

\* The oldest unanswered statement succeeds and its scope resumes.
TwoAnswerOk ==
    /\ Len(answers) < Len(sent)
    /\ db' = Exec(db, Oldest)
    /\ answers' = Append(answers, "ok")
    /\ LET i == Oldest.scope
           next == ResumedOk(i, scope[i], ReturnedRows(db, Oldest))
       IN /\ scope' = [scope EXCEPT ![i] = next[1]]
          /\ sent' = sent \o next[2]
    /\ UNCHANGED <<instVars, qVars, modelVars, txVars, daoVars, paging>>

\* The oldest unanswered statement fails and its scope resumes.
TwoAnswerError ==
    /\ Len(answers) < Len(sent)
    /\ db' = Fail(db, Oldest)
    /\ answers' = Append(answers, "error")
    /\ LET i == Oldest.scope
           next == ResumedError(i, scope[i], Oldest.stmt)
       IN /\ scope' = [scope EXCEPT ![i] = next[1]]
          /\ sent' = sent \o next[2]
    /\ UNCHANGED <<instVars, qVars, modelVars, txVars, daoVars, paging>>

NextTwo ==
    \/ \E i \in Scopes : TwoCall(i)
    \/ TwoAnswerOk
    \/ TwoAnswerError

-----------------------------------------------------------------------------
(* new T(attrs) and t.validate(), on the schemas description can be *)
(* declared with                                                    *)

\* The declarations of description: with or without a column alias, with a
\* static default, a default factory or none, with or without defaultOfType.
DescrDecls ==
    [column : {"description", "descr"},
     default : {"none", "static", "factory"},
     defaultOfType : BOOLEAN]

\* The validator lists of an attribute, and the schema's validations.
ValidatorLists ==
    {<<>>, <<"isNotNull">>, <<"isString">>, <<"isNotNull", "isString">>}
ValidationSchemas ==
    {<< <<"name", n>>, <<"description", d>> >> : n \in ValidatorLists, d \in ValidatorLists}

\* The raw maps: name absent, a string, a number or null; description absent,
\* a string or null; the key descr absent or a string.
ModelRaws ==
    {r \in UNION {[D -> {Null, "a", "b", "c", "55"}] : D \in SUBSET {"name", "description", "descr"}} :
        /\ "name" \in DOMAIN r => r["name"] \in {Null, "a", "55"}
        /\ "description" \in DOMAIN r => r["description"] \in {Null, "b"}
        /\ "descr" \in DOMAIN r => r["descr"] = "c"}

Returned == [state |-> "returned", err |-> "-"]
Threw(err) == [state |-> "threw", err |-> err]

\* ModelInstance(attrs) is entered: self.values = {current: {}, original: {}}.
InitModel ==
    /\ idColumn = "key"
    /\ idAttr = KeyAttr
    /\ descrAttr \in DescrDecls
    /\ validations \in ValidationSchemas
    /\ given \in ModelRaws
    /\ validated = NotCalled
    /\ current = EmptyMap
    /\ original = EmptyMap
    /\ emitted = <<>>
    /\ baseline = EmptyMap
    /\ hist = <<NoOp, NoOp>>

\* The constructor's loop over the schema's attributes.
New ==
    /\ current = EmptyMap
    /\ current' = Construct(given)
    /\ baseline' = current'
    /\ UNCHANGED <<original, emitted, hist, modelVars, callerVars, qVars, connVars, txVars, daoVars>>

\* t.validate(): it returns, or throws a ValidationError with the list.
Validate ==
    /\ current # EmptyMap /\ validated = NotCalled
    /\ validated' = IF Failed(current) # <<>>
                    THEN Threw(ValidationError(Failed(current)))
                    ELSE Returned
    /\ UNCHANGED <<schemaVars, given, callerVars, instVars, qVars, connVars, txVars, daoVars>>

NextModel ==
    \/ New
    \/ Validate

-----------------------------------------------------------------------------
(* Specifications *)

\* The instance on a schema with an identity attribute, and on one without.
IdAttrs == {KeyAttr, Null}
InitSpecIdentity ==
    /\ idColumn = "key"
    /\ idAttr \in IdAttrs
    /\ descrAttr = BaseDescr
    /\ validations = Validations
    /\ given = EmptyMap
    /\ validated = NotCalled
    /\ InitInstance /\ IdleQuery /\ IdleTx /\ IdleDao /\ IdleCallers

SpecIdentity == InitSpecIdentity /\ [][NextInstance]_vars

\* A caller paging through list.
InitSpecList == PlainSchema /\ IdleInstance /\ IdleDao /\ InitList /\ IdleQuery /\ scope = NoScopes

SpecList == InitSpecList /\ [][NextList]_vars

\* Two transaction scopes on one connection.
InitSpecTwoTx ==
    PlainSchema /\ IdleInstance /\ IdleDao /\ InitTwo /\ IdleQuery /\ paging = NoPaging

SpecTwoTx == InitSpecTwoTx /\ [][NextTwo]_vars

\* A caller that awaits one DAO.inTransaction call and then runs one query,
\* on a connection that answers every statement and with a scheduler that
\* resumes every coroutine whose promise has settled.
LiveStreams == {<<>>, <<RowOf("1"), RowOf("2")>>}

InitLive ==
    /\ InitTx
    /\ q = NewQuery
    /\ qIn \in LiveStreams
    /\ qSeen = <<>>
    /\ qTerminal = "none"
    /\ qAsked = {}
    /\ qRejectedAt = 0
    /\ qLast = "none"
    /\ qFirstAt = NeverCalled

\* The steps of a running scope: the connection's answers and the
\* coroutine's resumptions.
TxProgress ==
    \/ AnswerBeginOk
    \/ AnswerBeginError
    \/ AnswerInsertOk
    \/ AnswerInsertError
    \/ TxResumeWork
    \/ AnswerEndOk
    \/ AnswerEndError
    \/ AnswerCatchOk
    \/ AnswerCatchError

\* The query, once the scope has settled.
LiveQuery == txPc = "done" /\ NextQuery

NextLive ==
    \/ TxCall
    \/ TxProgress
    \/ LiveQuery

InitSpecLive == PlainSchema /\ InitLive /\ IdleDao /\ IdleCallers

SpecLive == InitSpecLive /\ [][NextLive]_vars /\ WF_vars(TxProgress)

\* One construction and one validate().
InitSpecModel == InitModel /\ IdleQuery /\ IdleTx /\ IdleDao /\ IdleCallers

SpecModel == InitSpecModel /\ [][NextModel]_vars

\* The instance alone: writes and checkpoints.
InitSpecInstance == PlainSchema /\ InitInstance /\ IdleQuery /\ IdleTx /\ IdleDao /\ IdleCallers

SpecInstance == InitSpecInstance /\ [][NextInstance]_vars

\* One streaming query.
InitSpecQuery == PlainSchema /\ InitQuery /\ IdleInstance /\ IdleTx /\ IdleDao /\ IdleCallers

SpecQuery == InitSpecQuery /\ [][NextQuery]_vars

\* One DAO.inTransaction call around one unit of work.
InitSpecTx == PlainSchema /\ InitTx /\ IdleQuery /\ IdleDao /\ IdleCallers

SpecTx == InitSpecTx /\ [][NextTx]_vars

\* The caller's DAO operations on one instance and one connection.
InitSpecDao == InitDao /\ IdleQuery /\ IdleCallers

SpecDao == InitSpecDao /\ [][NextDao]_vars

-----------------------------------------------------------------------------
(* Properties of the instance, under SpecInstance *)

IsSet(o, a) == o.op = "set" /\ Resolve(o.name) = a

\* C1: for every declared attribute, hasChanged(name) is true if and only if
\* the current value differs from the value at the last checkpoint (or at
\* construction).
C1_HasChangedIffDiffers ==
    \A a \in Attrs : hasChanged(a) <=> current[a] # baseline[a]

\* The last two operations wrote attribute a: first a value other than its
\* checkpoint value, then its checkpoint value.
RevertedLast(a) ==
    /\ IsSet(hist[1], a) /\ hist[1].val # baseline[a]
    /\ IsSet(hist[2], a) /\ hist[2].val = baseline[a]

\* C2: writing a value w different from the checkpoint value v and then
\* writing v again leaves the attribute out of the dirty set (hasChanged
\* false, original(name) undefined) with current value v.
C2_RevertClearsDirty ==
    \A a \in Attrs :
        RevertedLast(a) =>
            /\ ~hasChanged(a)
            /\ originalOf(a) = Undefined
            /\ current[a] = baseline[a]

C2_Witness ==
    \E a \in Attrs : RevertedLast(a) /\ ~hasChanged(a) /\ current[a] = baseline[a]

\* C3: immediately after checkpoint(), whatever writes preceded it,
\* hasChanged(name) is false for every attribute, changed() and original()
\* return empty mappings, and every current value is as it was.
C3_CheckpointClears ==
    [][ (hist' # hist /\ hist'[2].op = "checkpoint") =>
            /\ \A a \in Attrs : ~HasOwn(original', a)
            /\ [k \in DOMAIN original' |-> Get(current', k)] = EmptyMap
            /\ original' = EmptyMap
            /\ current' = current ]_vars

C3_Witness ==
    /\ hist[2].op = "checkpoint"
    /\ IsSet(hist[1], "name") /\ hist[1].val # Null
    /\ current["name"] = hist[1].val
    /\ original = EmptyMap

-----------------------------------------------------------------------------
(* Properties of the streaming query, under SpecQuery *)

\* C7: if collectResults() was requested before the stream finished, the
\* promise resolves with the full list of instances, one per row the
\* connection produced, in row order, each once.  Stated for the streams that
\* end with `end` and on which uniqueResult() is not called.
C7_CollectResolvesFullList ==
    (qTerminal = "end" /\ "collect" \in qAsked /\ "unique" \notin qAsked) =>
        q.promise = Resolved(ResList(Instances(qSeen)))

\* C8: if uniqueResult() was requested before the stream finished, a stream
\* of exactly one row resolves the promise with the instance built from that
\* row, and a stream with a second row rejects it with 'multiple results'.
\* Stated for the streams that end with `end` and on which collectResults()
\* is not called.
C8_UniqueResolvesOrRejects ==
    (qTerminal = "end" /\ "unique" \in qAsked /\ "collect" \notin qAsked) =>
        /\ Len(qSeen) = 1 => q.promise = Resolved(ResOne(Instance(qSeen[1])))
        /\ Len(qSeen) >= 2 => q.promise = Rejected(MultipleResults)

\* C9, as claimed: the promise is settled only after the terminal event (end
\* or error) has been received.  Stated for the streams on which
\* collectResults() is not called.
C9_SettledOnlyAfterTerminal ==
    (~q.collectResults /\ q.promise.state # "pending") => qTerminal # "none"

\* C9, amended: the promise is settled exactly once (once settled, its state
\* and value never change, and it is settled by the time the terminal event
\* has been handled); it is settled at the terminal event or, earlier, by the
\* 'multiple results' rejection of a row handled in uniqueResult mode.
C9_SettledOnce ==
    /\ [](/\ q.promise.state # "pending" =>
                \/ qTerminal # "none"
                \/ /\ q.promise = Rejected(MultipleResults)
                   /\ qRejectedAt > 0
                   /\ q.uniqueResult
          /\ qTerminal # "none" => q.promise.state # "pending")
    /\ [][q.promise.state # "pending" => q'.promise = q.promise]_vars

C9_Witness ==
    /\ qTerminal = "end"
    /\ qRejectedAt = 2
    /\ q.promise = Rejected(MultipleResults)

\* C10, as claimed: one progress notification per row produced by the
\* connection, carrying the instance built from that row, in row order, in
\* every result mode.  Stated for the streams on which collectResults() is
\* not called.
C10_NotifiesEveryRow ==
    ~q.collectResults => q.progress = Instances(qSeen)

\* C10, amended: one progress notification per row, carrying the instance
\* built from that row, in row order, for the rows handled before the promise
\* is rejected with 'multiple results'; the row whose handler rejects and the
\* rows after it are not notified.
C10_NotifiesUntilRejected ==
    q.progress =
        Instances(SubSeq(qSeen, 1, IF qRejectedAt = 0 THEN Len(qSeen)
                                   ELSE qRejectedAt - 1))

C10_Witness ==
    /\ Len(qSeen) = 3
    /\ qRejectedAt = 2
    /\ q.progress = <<Instance(qSeen[1])>>

\* What unique-result behaviour settles the promise with at end, for the
\* rows emitted.
UniqueOutcome(rows) ==
    IF Len(rows) = 0 THEN Resolved(ResNull)
    ELSE IF Len(rows) = 1 THEN Resolved(ResOne(Instance(rows[1])))
    ELSE Rejected(MultipleResults)

\* C11: when both uniqueResult() and collectResults() are called on the
\* handle (here: both before the first row, on a stream that delivers rows
\* and ends), the selector called last determines how the promise settles:
\* collectResults() last gives the collected list, uniqueResult() last gives
\* unique-result behaviour.
C11_LastSelectorWins ==
    (/\ qTerminal = "end" /\ qSeen # <<>>
     /\ qFirstAt.unique = 0 /\ qFirstAt.collect = 0) =>
        IF qLast = "collect"
        THEN q.promise = Resolved(ResList(Instances(qSeen)))
        ELSE q.promise = UniqueOutcome(qSeen)

\* C12: calling the same selector a second time, at any point before the
\* stream ends, leaves the value the promise settles with the same as if it
\* had been called once: the value a single call, made where the first call
\* was made, settles the promise with.
C12_SelectorIdempotent ==
    /\ (qTerminal = "end" /\ qAsked = {"collect"}) =>
          q.promise = Resolved(ResList(Instances(
                          SubSeq(qSeen, qFirstAt.collect + 1, Len(qSeen)))))
    /\ (qTerminal = "end" /\ qAsked = {"unique"}) =>
          q.promise = UniqueOutcome(SubSeq(qSeen, qFirstAt.unique + 1, Len(qSeen)))

-----------------------------------------------------------------------------
(* Properties of DAO.inTransaction, under SpecTx *)

Issued(stmt) == \E i \in 1..Len(sent) : sent[i].stmt = stmt
BeginOk == Len(answers) >= 1 /\ answers[1] = "ok"
WorkOk == fnResult.state = "resolved"
WorkFailed == fnResult.state = "rejected" \/ (fnKind = "throw" /\ fnCalledAfter >= 0)
WorkError == IF fnKind = "throw" THEN FnError ELSE fnResult.err
IsReadOnly == txOpts.given /\ txOpts.readOnly = TRUE

\* The statements the scope itself sent, without the unit of work's.
OwnStatements == LET Own(st) == st.by # "save" IN SelectSeq(sent, Own)

\* The place in `sent` of the statement that ends the try block.
EndIndex == CHOOSE i \in 1..Len(sent) : sent[i].by = "end"

\* BEGIN is issued first, the unit of work is invoked only after BEGIN has
\* succeeded, and after a successful unit of work the next statement of the
\* scope, issued after the unit of work's own, is COMMIT when opts.readOnly
\* is not true and ROLLBACK when it is; with readOnly true COMMIT is never
\* issued.
C4_Order ==
    /\ sent # <<>> => sent[1].stmt = "BEGIN"
    /\ fnCalledAfter >= 0 => (fnCalledAfter >= 1 /\ BeginOk)
    /\ \A i \in 1..Len(sent) : sent[i].by = "save" => i > fnCalledAfter
    /\ (BeginOk /\ WorkOk /\ txPc \in {"end", "catch", "done"}) =>
          /\ Len(OwnStatements) >= 2
          /\ OwnStatements[2].stmt = (IF IsReadOnly THEN "ROLLBACK" ELSE "COMMIT")
          /\ OwnStatements[2].by = "end"
          /\ \A i \in 1..Len(sent) : sent[i].by = "save" => i < EndIndex
    /\ IsReadOnly => ~Issued("COMMIT")

\* C4, as claimed: when BEGIN succeeds and the unit of work succeeds, the
\* statements are issued as C4_Order says and the call resolves with the unit
\* of work's result.
C4_SuccessResolves ==
    /\ C4_Order
    /\ (txPc = "done" /\ BeginOk /\ WorkOk) => txResult = Resolved(fnResult.val)

\* C4, amended: the statements are issued as C4_Order says, and when the
\* terminating statement succeeds too the call resolves with the unit of
\* work's result.
C4_SuccessPath ==
    /\ C4_Order
    /\ (txPc = "done" /\ BeginOk /\ WorkOk /\ answers[EndIndex] = "ok") =>
          txResult = Resolved(fnResult.val)

C4_Witness ==
    /\ txPc = "done" /\ BeginOk /\ WorkOk /\ IsReadOnly
    /\ [i \in 1..Len(sent) |-> sent[i].stmt] = <<"BEGIN", "INSERT", "ROLLBACK">>
    /\ answers = <<"ok", "ok", "ok">>
    /\ txResult = Resolved(current)

\* C5: when the unit of work fails with error E, inTransaction issues
\* ROLLBACK, never issues COMMIT, and fails with exactly E, whatever the
\* connection answers to the ROLLBACK statement.
C5_RollbackAndRethrow ==
    (txPc = "done" /\ WorkFailed) =>
        /\ Issued("ROLLBACK")
        /\ ~Issued("COMMIT")
        /\ txResult = Rejected(WorkError)

\* The statements of the scope that are stmt.
Count(stmts) ==
    Cardinality({i \in 1..Len(OwnStatements) : OwnStatements[i].stmt \in stmts})

\* C36: every DAO.inTransaction call issues exactly one BEGIN and, after
\* it, exactly one terminating statement (either COMMIT or ROLLBACK, never
\* both and never two), whichever of BEGIN, the unit of work, COMMIT or
\* ROLLBACK fails; the unit of work is not invoked when BEGIN fails.
C36_OneBeginOneEnd ==
    /\ txPc # "idle" => (Count({"BEGIN"}) = 1 /\ OwnStatements[1].stmt = "BEGIN")
    /\ Count({"COMMIT", "ROLLBACK"}) <= 1
    /\ txPc = "done" => Count({"COMMIT", "ROLLBACK"}) = 1
    /\ (Len(answers) >= 1 /\ answers[1] = "error") => fnCalledAfter = -1

\* A terminating statement of the scope has been issued after its BEGIN.
EndedAfterBegin ==
    \E b, e \in 1..Len(sent) :
        /\ b < e
        /\ sent[b].stmt = "BEGIN"
        /\ sent[e].by \in {"end", "catch"} /\ sent[e].stmt \in {"COMMIT", "ROLLBACK"}

\* C38: provided the connection eventually answers every statement and the
\* unit of work eventually settles, every DAO.inTransaction call eventually
\* settles, and by then a terminating statement (COMMIT or ROLLBACK) has
\* been issued after its BEGIN; likewise every query promise has settled
\* once the connection has emitted end or error.
C38_EventuallySettles ==
    /\ (txPc # "idle") ~> (txResult.state # "pending")
    /\ [](txResult.state # "pending" => EndedAfterBegin)
    /\ [](qTerminal # "none" => q.promise.state # "pending")

\* The scope has settled after a failed BEGIN and the catch block's
\* ROLLBACK, and the query that followed has ended and resolved.
C38_Witness ==
    /\ txPc = "done" /\ txResult.state = "rejected"
    /\ answers[1] = "error" /\ EndedAfterBegin
    /\ qTerminal = "end" /\ q.promise.state = "resolved"

\* C6: a successful save executed inside DAO.inTransaction with readOnly:
\* true leaves no new row visible once inTransaction has finished: the table
\* holds the same rows as before BEGIN.
C6_ReadOnlyLeavesNoRow ==
    (txPc = "done" /\ IsReadOnly /\ fnKind = "save" /\ WorkOk) =>
        /\ db.table = tableAtCall
        /\ ~db.inTx

C6_Witness ==
    /\ txPc = "done" /\ IsReadOnly /\ fnKind = "save" /\ WorkOk
    /\ Len(sent) >= 2 /\ sent[2].stmt = "INSERT" /\ answers[2] = "ok"
    /\ tableAtCall = {RowOf("1")}
    /\ current[ModelId] = "2"
    /\ db.table = tableAtCall

-----------------------------------------------------------------------------
(* Properties of save, update, destroy and get, under SpecDao *)

\* The operation called last has ended.
Finished(kind) == daoOp.kind = kind /\ daoPc = "idle"
Range(seq) == {seq[i] : i \in 1..Len(seq)}
Supplied(v) == v \notin {Null, Undefined}

\* The operation was rejected by a hook that threw.
HookThrew ==
    /\ daoResult.state = "rejected"
    /\ \E ph \in DOMAIN Hooks : \E k \in 1..Len(Hooks[ph]) :
          daoResult.err = HookError(ph, k)

\* The rows with the asked id that were stored when the operation was called.
StoredAtCall == {r \in daoAt.table : r[Column(ModelId)] = daoOp.id}

NameNotNull == << <<"name", "expected not null">> >>

\* update was called on an instance with an empty dirty set, and has ended.
EmptyUpdate == Finished("update") /\ daoAt.original = EmptyMap

\* C13, as claimed: update on an instance whose dirty set is empty sends no
\* statement, yet runs the preUpdate hooks, validate(), checkpoint() and the
\* postUpdate hooks, and resolves without error (no hook throwing).
C13_EmptyUpdateResolves ==
    (EmptyUpdate /\ ~HookThrew) =>
        /\ sent = <<>>
        /\ steps = <<"preUpdate1", "validate", "checkpoint", "postUpdate1">>
        /\ daoResult.state = "resolved"

\* C13, amended: update on an instance whose dirty set is empty sends no
\* statement and runs the preUpdate hooks and validate(); when validate()
\* passes and no hook throws it runs checkpoint() and the postUpdate hooks
\* too and resolves with the instance, which it leaves as it was; when
\* validate() fails it rejects with the ValidationError and runs neither.
C13_EmptyUpdate ==
    EmptyUpdate =>
        /\ sent = <<>>
        /\ steps[1] = "preUpdate1"
        /\ ~HookThrew => steps[2] = "validate"
        /\ (~HookThrew /\ daoAt.current["name"] # Null) =>
              /\ steps = <<"preUpdate1", "validate", "checkpoint", "postUpdate1">>
              /\ daoResult = Resolved(TheObj)
              /\ current = daoAt.current /\ original = EmptyMap
        /\ (~HookThrew /\ daoAt.current["name"] = Null) =>
              /\ steps = <<"preUpdate1", "validate">>
              /\ daoResult = Rejected(ValidationError(NameNotNull))

C13_Witness ==
    /\ EmptyUpdate /\ prev.kind = "save" /\ prev.ok
    /\ daoResult = Resolved(TheObj)
    /\ steps = <<"preUpdate1", "validate", "checkpoint", "postUpdate1">>
    /\ sent = <<>>

\* C14: in a successful save the steps happen in this order, each once: the
\* preCreate hooks in declared order, validate(), one INSERT, the merge of
\* the returned row, checkpoint(), the postCreate hooks in declared order;
\* save resolves with the instance it was given.
C14_SaveOrder ==
    (Finished("save") /\ daoResult.state = "resolved") =>
        /\ steps = <<"preCreate1", "preCreate2", "validate", "INSERT", "merge",
                     "checkpoint", "postCreate1", "postCreate2">>
        /\ Len(sent) = 1 /\ sent[1].stmt = "INSERT" /\ answers = <<"ok">>
        /\ daoResult = Resolved(TheObj)
        /\ original = EmptyMap

C14_Witness ==
    /\ Finished("save") /\ daoResult = Resolved(TheObj)
    /\ idColumn = "key" /\ daoAt.current[ModelId] = Null /\ current[ModelId] = "2"
    /\ Len(steps) = 8

\* C15: if validate() fails during save or update, the operation rejects
\* with that same ValidationError, no statement is sent to the connection,
\* and the post hooks do not run (nor does checkpoint(): the instance is as
\* it was).
C15_ValidationAborts ==
    \A kind \in {"save", "update"} :
        (Finished(kind) /\ "validate" \in Range(steps) /\ daoAt.current["name"] = Null) =>
            /\ daoResult = Rejected(ValidationError(NameNotNull))
            /\ sent = <<>>
            /\ steps = Hooks[IF kind = "save" THEN "preCreate" ELSE "preUpdate"]
                          \o <<"validate">>
            /\ current = daoAt.current /\ original = daoAt.original

C15_Witness ==
    /\ Finished("update") /\ daoAt.original # EmptyMap
    /\ daoAt.current["name"] = Null
    /\ daoResult = Rejected(ValidationError(NameNotNull))
    /\ sent = <<>>

\* save has sent its INSERT.
InsertSent == daoOp.kind = "save" /\ sent # <<>>
SetColumns == {sent[1].sets[i][1] : i \in 1..Len(sent[1].sets)}
IdentityPart == IF Supplied(daoAt.current[ModelId]) THEN {Column(ModelId)} ELSE {}

\* C16, as claimed: the INSERT built by save sets exactly the columns of
\* every non-identity attribute that has a value (one that is neither null
\* nor undefined), plus the identity attribute if and only if its current
\* value is neither null nor undefined.
C16_InsertSetsValued ==
    InsertSent =>
        SetColumns = {Column(a) : a \in {x \in Attrs \ {ModelId} :
                                            Supplied(daoAt.current[x])}}
                        \cup IdentityPart

\* C16, amended: the INSERT built by save sets exactly the columns of every
\* non-identity attribute, whatever its value (null included), plus the
\* identity attribute if and only if its current value is neither null nor
\* undefined (the empty string counts as supplied); each column is given
\* its attribute's current value.
C16_InsertSetsAll ==
    InsertSent =>
        /\ SetColumns = {Column(a) : a \in Attrs \ {ModelId}} \cup IdentityPart
        /\ \A a \in Attrs : \A i \in 1..Len(sent[1].sets) :
              sent[1].sets[i][1] = Column(a) =>
                  sent[1].params[sent[1].sets[i][2]] = daoAt.current[a]

C16_Witness ==
    /\ InsertSent
    /\ daoAt.current[ModelId] = "" /\ daoAt.current["description"] = Null
    /\ SetColumns = {Column(a) : a \in Attrs}

\* C17: after a successful save of a new instance with no supplied identity,
\* where the database returns the inserted row with a generated identity, the
\* instance's id is defined and non-null, every attribute equals its pre-save
\* value overridden by the returned column value where one was returned (the
\* row has every column), and the dirty set is empty.
C17_SaveTakesReturnedRow ==
    (/\ Finished("save") /\ daoResult.state = "resolved"
     /\ ~Supplied(daoAt.current[ModelId])
     /\ Cardinality(db.table \ daoAt.table) = 1) =>
        LET row == CHOOSE r \in db.table \ daoAt.table : TRUE IN
        /\ Supplied(current[ModelId])
        /\ \A a \in Attrs : current[a] = row[Column(a)]
        /\ original = EmptyMap

\* C18: get returns a newly constructed instance when the SELECT returns
\* exactly one row, null when it returns no row, and fails with an error
\* when it returns more than one row.
C18_GetOneNoneOrMany ==
    (Finished("get") /\ answers = <<"ok">>) =>
        /\ Cardinality(StoredAtCall) = 1 =>
              daoResult = Resolved(ResOne(Construct(CHOOSE r \in StoredAtCall : TRUE)))
        /\ Cardinality(StoredAtCall) = 0 => daoResult = Resolved(ResNull)
        /\ Cardinality(StoredAtCall) > 1 => daoResult.state = "rejected"

\* C19: after save of an instance, a write to one attribute of it (or of a
\* get of it), and update, a get by the same id (of a row the id alone
\* identifies, answered by the connection) returns an instance whose changed
\* attribute has the new value and whose id and other attributes equal the
\* saved ones.
C19_UpdateThenGet ==
    (/\ Finished("get") /\ scen.stage = 4 /\ answers = <<"ok">>
     /\ Cardinality(StoredAtCall) <= 1) =>
        daoResult = Resolved(ResOne([scen.saved EXCEPT ![scen.name] = scen.val]))

C19_Witness ==
    /\ Finished("get") /\ scen.stage = 4
    /\ scen.name = "description" /\ scen.val = "b" /\ scen.saved["description"] = "a"
    /\ scen.saved[ModelId] = "2"
    /\ daoResult = Resolved(ResOne([scen.saved EXCEPT !["description"] = "b"]))

\* C20: after destroy by id of a stored row, get by the same id (answered by
\* the connection) resolves with null and does not raise.
C20_DestroyThenGet ==
    (/\ Finished("get") /\ answers = <<"ok">>
     /\ prev.kind = "destroy" /\ prev.ok /\ prev.hit /\ prev.id = daoOp.id) =>
        daoResult = Resolved(ResNull)

C20_Witness ==
    /\ Finished("get") /\ prev.kind = "destroy" /\ prev.ok /\ prev.hit
    /\ prev.id = daoOp.id /\ daoOp.id = "1"
    /\ daoResult = Resolved(ResNull)

\* destroy was called and no hook of it threw.
DestroyRan == Finished("destroy") /\ ~HookThrew
DestroyedId == IF daoOp.byObj THEN daoAt.current[ModelId] ELSE daoOp.id

\* C21: destroy given an instance runs every preDestroy hook before the
\* DELETE and, once the connection has executed it, every postDestroy hook
\* after it; destroy given a bare identifier runs no hook at all; in both
\* cases exactly one DELETE is issued, with the identifier as its only
\* parameter (no hook throwing).
C21_DestroyHooks ==
    DestroyRan =>
        /\ Len(sent) = 1 /\ sent[1].stmt = "DELETE" /\ sent[1].params = <<DestroyedId>>
        /\ daoOp.byObj =>
              steps = Hooks["preDestroy"] \o <<"DELETE">>
                         \o (IF answers = <<"ok">> THEN Hooks["postDestroy"] ELSE <<>>)
        /\ ~daoOp.byObj => steps = <<"DELETE">>

C21_Witness ==
    /\ DestroyRan /\ daoOp.byObj /\ daoResult = Resolved(NoValue)
    /\ steps = <<"preDestroy1", "DELETE", "postDestroy1">>
    /\ sent[1].params = <<"2">> /\ prev.kind = "save" /\ prev.ok

\* The rows stored under the instance's id once save or update has resolved.
RowsOfObj ==
    IF daoOp.kind = "save" THEN db.table \ daoAt.table
    ELSE {r \in db.table : r[Column(ModelId)] = daoAt.current[ModelId]}

\* C26: every DAO operation translates between attribute names and column
\* names through the schema's column alias, also when an alias differs from
\* the attribute name: the set clauses and the identity predicate of UPDATE,
\* DELETE and SELECT name the column alias, and each value of a row returned
\* by save or update is assigned to the attribute whose column alias is the
\* returned column's name.
C26_AliasTranslation ==
    /\ \A i \in 1..Len(sent) :
          /\ sent[i].stmt \in {"UPDATE", "DELETE", "SELECT"} =>
                sent[i].where[1] = Column(ModelId)
          /\ sent[i].stmt = "UPDATE" =>
                {sent[i].sets[j][1] : j \in 1..Len(sent[i].sets)}
                    = {Column(a) : a \in DOMAIN daoAt.original}
    /\ \A kind \in {"save", "update"} :
          (/\ Finished(kind) /\ daoResult.state = "resolved"
           /\ "merge" \in Range(steps) /\ Cardinality(RowsOfObj) = 1) =>
              \A a \in Attrs : current[a] = (CHOOSE r \in RowsOfObj : TRUE)[Column(a)]

\* The hooks of a phase among the steps of the operation, in the order run.
HooksIn(phase) ==
    LET OfPhase(s) == s \in Range(Hooks[phase]) IN SelectSeq(steps, OfPhase)
PrePhases == {"preCreate", "preUpdate", "preDestroy"}

\* C28: the hooks of a lifecycle phase run in list order, each at most once
\* per operation; when a hook throws, the remaining hooks do not run, no
\* later step of the operation (validate, statement, checkpoint, post hooks)
\* is performed, and the operation rejects with the hook's error.
C28_HookThrowAborts ==
    \A phase \in DOMAIN Hooks :
        /\ \E n \in 0..Len(Hooks[phase]) : HooksIn(phase) = SubSeq(Hooks[phase], 1, n)
        /\ \A k \in 1..Len(Hooks[phase]) :
              (/\ \E kind \in {"save", "update", "destroy"} : Finished(kind)
               /\ daoResult = Rejected(HookError(phase, k))) =>
                  /\ HooksIn(phase) = SubSeq(Hooks[phase], 1, k)
                  /\ steps[Len(steps)] = Hooks[phase][k]
                  /\ phase \in PrePhases =>
                        /\ steps = SubSeq(Hooks[phase], 1, k)
                        /\ sent = <<>>
                        /\ current = daoAt.current /\ original = daoAt.original
                        /\ db.table = daoAt.table

C28_Witness ==
    /\ Finished("save") /\ daoResult = Rejected(HookError("preCreate", 1))
    /\ steps = <<"preCreate1">> /\ sent = <<>>
    /\ daoAt.current["name"] = "a"

\* update has sent its UPDATE; the dirty set it was called with.
UpdateSent == daoOp.kind = "update" /\ sent # <<>>
DirtyAtCall == DOMAIN daoAt.original

\* C32: the UPDATE built by update for a non-empty dirty set sets exactly
\* the columns of the dirty attributes, no more and no fewer, each to the
\* attribute's current value, and is keyed on the identity attribute being
\* equal to the instance's current id.
C32_UpdateSetsDirty ==
    UpdateSent =>
        /\ sent[1].stmt = "UPDATE"
        /\ DirtyAtCall # {}
        /\ SetColumns = {Column(a) : a \in DirtyAtCall}
        /\ Len(sent[1].sets) = Cardinality(DirtyAtCall)
        /\ \A a \in DirtyAtCall : \A i \in 1..Len(sent[1].sets) :
              sent[1].sets[i][1] = Column(a) =>
                  sent[1].params[sent[1].sets[i][2]] = daoAt.current[a]
        /\ sent[1].where[1] = ModelId
        /\ sent[1].params[sent[1].where[2]] = daoAt.current[ModelId]

\* An UPDATE of the one dirty attribute of three is in flight.
C32_Witness ==
    /\ UpdateSent /\ daoPc = "await"
    /\ DirtyAtCall = {"name"}
    /\ sent[1].sets = << <<"name", 2>> >>

\* The placeholder numbers of a statement, in the order of its parameters'
\* uses: the WHERE clause's, then the set clauses'.
Placeholders(st) ==
    (IF st.where = <<>> THEN <<>> ELSE <<st.where[2]>>)
        \o [i \in 1..Len(st.sets) |-> st.sets[i][2]]

\* The attribute a column belongs to.
AttrOf(c) == CHOOSE a \in Attrs : Column(a) = c

\* C33: in every statement built by save and update the positional
\* placeholders are numbered $1..$n consecutively with no gap, and the k-th
\* parameter passed to the connection is the value for placeholder $k: in
\* save the skipped identity consumes no number; in update $1 is the id and
\* the dirty columns start at $2.
C33_PlaceholdersConsecutive ==
    (daoOp.kind \in {"save", "update"} /\ sent # <<>>) =>
        LET st == sent[1]
            ph == Placeholders(st)
        IN /\ Range(ph) = 1..Len(st.params)
           /\ Len(ph) = Len(st.params)
           /\ \A i \in 1..Len(st.sets) :
                 st.params[st.sets[i][2]] = daoAt.current[AttrOf(st.sets[i][1])]
           /\ daoOp.kind = "save" =>
                 [i \in 1..Len(st.sets) |-> st.sets[i][2]] = [i \in 1..Len(st.sets) |-> i]
           /\ daoOp.kind = "update" =>
                 /\ st.where[2] = 1
                 /\ st.params[1] = daoAt.current[ModelId]
                 /\ [i \in 1..Len(st.sets) |-> st.sets[i][2]]
                       = [i \in 1..Len(st.sets) |-> i + 1]

\* An INSERT that skips the identity is in flight: two placeholders for the
\* two other attributes.
C33_Witness ==
    /\ InsertSent /\ daoPc = "await"
    /\ daoAt.current[ModelId] = Null
    /\ Placeholders(sent[1]) = <<1, 2>>
    /\ Len(sent[1].params) = 2

\* save or update has failed in validate() or in its statement.
FailedIn(kind) ==
    /\ Finished(kind) /\ daoResult.state = "rejected"
    /\ \/ daoResult.err.kind = "ValidationError"
       \/ daoResult.err \in {Error("INSERT failed"), Error("UPDATE failed")}

\* C35: when save or update fails because of a validation error or a
\* failing SQL statement, checkpoint() has not been called: the instance's
\* dirty set and current values are the same as just before validate() ran,
\* so the pending changes remain available for a retry.
C35_FailureKeepsChanges ==
    \A kind \in {"save", "update"} :
        FailedIn(kind) =>
            /\ "checkpoint" \notin Range(steps)
            /\ current = daoAt.current
            /\ original = daoAt.original
            /\ changedAll = [a \in DirtyAtCall |-> daoAt.current[a]]

\* An update of a changed instance whose UPDATE failed.
C35_Witness ==
    /\ FailedIn("update") /\ daoResult.err = Error("UPDATE failed")
    /\ DirtyAtCall = {"name"} /\ hasChanged("name")
    /\ current["name"] = "b"

-----------------------------------------------------------------------------
(* Properties of list, under SpecList *)

\* The stored rows in ascending order of the identity.
StoredInOrder == CHOOSE o \in SortedBy(Column(ModelId), db.table) : TRUE

\* The rows the options ask for: from the offset on, the limit at most.
AskedPage(opts) ==
    IF opts.given THEN Slice(StoredInOrder, opts.offset, opts.limit) ELSE StoredInOrder

\* C27: list builds a SELECT ordered by the identity attribute and applies
\* LIMIT and OFFSET whenever they are supplied in the options: a page
\* delivers the stored rows, in order of identity, from the offset on and
\* the limit at most; paging from the start with a fixed positive limit and
\* an offset advanced by the number of rows received delivers every stored
\* row exactly once, none duplicated and none unknown.
C27_ListPages ==
    /\ paging.pc # "idle" => sent[1].order = ModelId
    /\ (paging.pc = "streaming" /\ qTerminal = "end") =>
          q.progress = Instances(AskedPage(paging.opts))
    /\ (/\ paging.pc = "done" /\ paging.first.given /\ paging.first.limit > 0
        /\ paging.first.offset \in {Absent, 0}) =>
          /\ Len(paging.got) = Cardinality(db.table)
          /\ Range(paging.got) = {Instance(r) : r \in db.table}

-----------------------------------------------------------------------------
(* Properties of two scopes on one connection, under SpecTwoTx *)

\* The positions of the statements a scope has issued at a step.
IssuedAt(i, steps_) ==
    {k \in 1..Len(sent) : sent[k].scope = i /\ sent[k].by \in steps_}

\* Scope i's terminating statement was issued between scope j's BEGIN and
\* scope j's terminating statement.
EndsInside(i, j) ==
    \E b \in IssuedAt(j, {"begin"}), t \in IssuedAt(i, {"end", "catch"}),
       e \in IssuedAt(j, {"end", "catch"}) : b < t /\ t < e

\* C29: the DAO imposes no locking on a connection: a scope that has not
\* been started can be started whatever the other scope is doing on the
\* connection, its BEGIN issued at once, and every statement a scope issues
\* goes to the connection behind those already issued, so the statements of
\* two scopes interleave.
C29_NoLocking ==
    /\ \A i \in Scopes : scope[i].pc = "idle" => ENABLED TwoCall(i)
    /\ \A i \in Scopes : scope[i].pc \in {"begin", "work", "end", "catch"} =>
          \E k \in IssuedAt(i, {scope[i].pc}) : k > Len(answers)

\* One scope's terminating statement has been issued between the other
\* scope's BEGIN and its terminating statement, no statement having failed.
C29_Witness ==
    /\ \E i, j \in Scopes : i # j /\ EndsInside(i, j)
    /\ \A k \in 1..Len(answers) : answers[k] = "ok"

-----------------------------------------------------------------------------
(* Properties of reads and writes by name, under SpecInstance *)

\* The step is the write obj[name] = v.
Writes(name, v) == hist' = Record(hist, [op |-> "set", name |-> name, val |-> v])

\* The names written that are neither declared attributes nor the id alias.
Undeclared == WriteNames \ (Attrs \cup {"id"})

\* C24: writing a name that is not a declared attribute (and is not the id
\* alias) changes nothing: the current map, the dirty set and the baseline
\* map are unchanged, no change event is emitted, and a later read of that
\* name still returns undefined.
C24_UndeclaredWriteInert ==
    [][\A name \in Undeclared, v \in Vals :
          Writes(name, v) =>
              /\ UNCHANGED <<current, original>>
              /\ emitted' = <<>>
              /\ ProxyGet(current', name) = Undefined]_vars

\* C30: while a declared attribute is in the dirty set, original(name)
\* returns the value the attribute had at the last checkpoint, however many
\* further writes to that attribute follow the first one.
C30_OriginalIsCheckpointValue ==
    \A a \in Attrs : hasChanged(a) => originalOf(a) = baseline[a]

C30_Witness ==
    /\ hist[1] = [op |-> "set", name |-> "name", val |-> "b"]
    /\ hist[2] = [op |-> "set", name |-> "name", val |-> Null]
    /\ hasChanged("name") /\ originalOf("name") = "a" /\ baseline["name"] = "a"

\* The two events of a write of v to attribute a whose value was old.
ChangeEvents(a, old, v) ==
    << <<"change:all", a, old, v>>, <<"change:" \o a, old, v>> >>

\* C31: every write to a declared attribute updates the current value and
\* emits first change:all with (attribute name, old value, new value) and
\* then change:<name> with (old value, new value), the old value being the
\* value the attribute held immediately before this write.
C31_EmitsOldAndNew ==
    [][\A name \in WriteNames, v \in Vals :
          (Writes(name, v) /\ Resolve(name) \in Attrs) =>
              /\ current'[Resolve(name)] = v
              /\ emitted' = ChangeEvents(Resolve(name), current[Resolve(name)], v)]_vars

\* The names read that are neither declared attributes nor the id alias: an
\* unknown name, an inherited name and a method's.
OtherNames == (WriteNames \cup {"validate"}) \ (Attrs \cup {"id"})

\* C34: reading from an instance any property name that is neither a
\* declared attribute nor the id alias returns undefined (and never throws).
C34_OtherReadsUndefined ==
    \A name \in OtherNames : ProxyGet(current, name) = Undefined

\* C37: in every reachable state of an instance the key set of the current
\* map is exactly the set of schema-declared attributes, no key ever added
\* or removed, and the key set of the baseline map is a subset of it.
C37_KeysAreAttributes ==
    /\ DOMAIN current = Attrs
    /\ DOMAIN original \subseteq DOMAIN current

-----------------------------------------------------------------------------
(* Properties of the id alias, under SpecIdentity *)

\* The step is the write obj.id = v.
WritesId(v) == hist' = Record(hist, [op |-> "set", name |-> "id", val |-> v])

\* Reading id gives the identity attribute's value; undefined without one.
IdReadsIdentity ==
    ProxyGet(current, "id") = IF idAttr # Null THEN current[idAttr] ELSE Undefined

\* obj.id = v writes the identity attribute: its value is v, and the dirty
\* set tracks it under its own name, with the value it had at the last
\* checkpoint, unless v is that value again; nothing is kept under id.
IdWritesIdentity(v) ==
    /\ current' = [current EXCEPT ![idAttr] = v]
    /\ "id" \notin DOMAIN original'
    /\ \A a \in Attrs \ {idAttr} : HasOwn(original', a) = HasOwn(original, a)
    /\ IF HasOwn(original, idAttr) /\ v = original[idAttr]
       THEN ~HasOwn(original', idAttr)
       ELSE /\ HasOwn(original', idAttr)
            /\ original'[idAttr] = IF HasOwn(original, idAttr) THEN original[idAttr]
                                   ELSE current[idAttr]
    /\ emitted' = << <<"change:all", idAttr, Get(original', idAttr), v>>,
                     <<"change:" \o idAttr, Get(original', idAttr), v>> >>

\* C23: on a schema with a declared identity attribute, reading id returns
\* the current value of the identity attribute at every point, and a write to
\* id is a write to the identity attribute, tracked in the dirty set under
\* that attribute's name; on a schema with no identity attribute and no
\* attribute named id, reading id returns undefined and writing it changes
\* nothing.
C23_IdAlias ==
    /\ []IdReadsIdentity
    /\ [][\A v \in Vals : WritesId(v) =>
             IF idAttr # Null THEN IdWritesIdentity(v)
             ELSE UNCHANGED <<current, original>> /\ emitted' = <<>>]_vars

C23_Witness ==
    /\ hist[2] = [op |-> "set", name |-> "id", val |-> "b"]
    /\ idAttr = KeyAttr /\ current[KeyAttr] = "b" /\ baseline[KeyAttr] = Null
    /\ DOMAIN original = {KeyAttr}
    /\ ProxyGet(current, "id") = "b"

-----------------------------------------------------------------------------
(* Properties of the constructor and of validate(), under SpecModel *)

\* The attributes with a validator that does not pass on the current value.
FailingAttrs ==
    {validations[i][1] : i \in {j \in 1..Len(validations) :
        \E v \in 1..Len(validations[j][2]) :
            ~ApplyValidator(validations[j][2][v], Get(current, validations[j][1]))[1]}}

\* C22: validate() on an instance with N attributes that each fail validation
\* raises one ValidationError whose failure list has exactly N entries, each
\* failing attribute reported exactly once and none omitted, however many
\* validators an attribute declares.
C22_OneEntryPerAttribute ==
    (validated # NotCalled /\ FailingAttrs # {}) =>
        /\ validated.state = "threw"
        /\ validated.err.kind = "ValidationError"
        /\ Len(validated.err.failed) = Cardinality(FailingAttrs)
        /\ \A a \in FailingAttrs :
              Cardinality({i \in 1..Len(validated.err.failed) :
                              validated.err.failed[i][1] = a}) = 1

\* The rules of construction for attribute a, in the claimed order: whether
\* each applies, and the value it gives.
Rules(a) ==
    << <<a \in DOMAIN given, Get(given, a)>>,
       <<Column(a) \in DOMAIN given, Get(given, Column(a))>>,
       <<a = "description" /\ descrAttr.default = "factory", FactoryValue>>,
       <<a = "description" /\ descrAttr.defaultOfType, TypeValue>>,
       <<a = "description" /\ descrAttr.default = "static", "a">>,
       <<TRUE, Null>> >>
FirstRule(a) == CHOOSE i \in 1..6 : Rules(a)[i][1] /\ \A j \in 1..(i - 1) : ~Rules(a)[j][1]

\* The constructor has run.
Built == current # EmptyMap

\* C25: at construction each schema attribute's current value is chosen by
\* the first applicable rule in this order: the raw map's value under the
\* attribute name, its value under the column alias, the result of the
\* default factory, a freshly constructed value of the declared type when the
\* type-default flag is set, the static default, otherwise null.
C25_FirstApplicableRule ==
    Built => /\ DOMAIN current = Attrs
             /\ \A a \in Attrs : current[a] = Rules(a)[FirstRule(a)][2]

C25_Witness ==
    /\ Built /\ FirstRule("description") = 4
    /\ descrAttr.default = "static"
    /\ current["description"] = TypeValue
    /\ "name" \in DOMAIN given /\ current["name"] = given["name"]

====
